---- MODULE Spec2Model ----
(***************************************************************************)
(* State-machine model of the 2d-vector-editor core: the selection engine  *)
(* of paths.js (src/unnamed/part_002) and the pointer / keyboard handlers  *)
(* of board.js (src/unnamed/part_004), toolbar.js and tool-select.js       *)
(* (src/unnamed/part_003).                                                 *)
(*                                                                         *)
(* Conventions                                                             *)
(*  - `state` is the VectorEditor.state object, one record field per       *)
(*    property the handlers read or write.                                 *)
(*  - object ids 'obj_<n>' are modelled by the counter value n; the null   *)
(*    id is NullId, the null index is NullIndex.                           *)
(*  - point and edge indices keep the source's 0-based values; At(seq, i)  *)
(*    reads a JavaScript array held as a TLA+ sequence.                    *)
(*  - JavaScript numbers are modelled as fixed-point numbers counted in    *)
(*    tenths of a pixel (Px(n) is n pixels); quotients and square roots    *)
(*    round to the nearest tenth.                                          *)
(*  - the scenes hold rectangles, circles, line paths and a path drawn     *)
(*    with the arc tool; none carries bezier handles (obj.handles is       *)
(*    undefined), and the tools switched to are select, rotate, rectangle  *)
(*    and circle.                                                          *)
(***************************************************************************)
EXTENDS Integers, Sequences, FiniteSets, TLC

VARIABLES state,      \* VectorEditor.state
          lastEvent,  \* the pointer or keyboard handler that ran last
          gesture,    \* what the last mousedown struck; "none" once a
                      \* mouseup was delivered
          calls       \* how many handlers or operations have run

vars == <<state, lastEvent, gesture, calls>>

\* ------------------------------------------------------------------------
\* Numbers
\* ------------------------------------------------------------------------

Px(n) == n * 10

Abs(n) == IF n < 0 THEN 0 - n ELSE n

Min2(a, b) == IF a <= b THEN a ELSE b

Max2(a, b) == IF a >= b THEN a ELSE b

Pt(x, y) == [x |-> x, y |-> y]

NullId == 0

NullIndex == 0 - 1

\* ------------------------------------------------------------------------
\* JavaScript arrays
\* ------------------------------------------------------------------------

At(seq, i) == seq[i + 1]

InRange(seq, i) == i >= 0 /\ i < Len(seq)

Includes(seq, x) == \E k \in 1..Len(seq) : seq[k] = x

IndexOf(seq, x) == IF Includes(seq, x)
                   THEN (CHOOSE k \in 1..Len(seq) :
                            seq[k] = x /\ \A j \in 1..(k - 1) : seq[j] # x) - 1
                   ELSE NullIndex

\* array.splice(i, 1)
Splice(seq, i) == [k \in 1..(Len(seq) - 1) |-> IF k <= i THEN seq[k] ELSE seq[k + 1]]

\* if (!array.includes(x)) array.push(x)
PushNew(seq, x) == IF Includes(seq, x) THEN seq ELSE Append(seq, x)

RECURSIVE PushAllNew(_, _)
PushAllNew(seq, xs) == IF xs = <<>> THEN seq
                       ELSE PushAllNew(PushNew(seq, Head(xs)), Tail(xs))

PointKey(objectId, pointIndex) == [objectId |-> objectId, pointIndex |-> pointIndex]

EdgeKey(objectId, edgeIndex) == [objectId |-> objectId, edgeIndex |-> edgeIndex]

\* the keys (objectId, from) .. (objectId, to), ascending
PointKeys(objectId, from, to) ==
    [k \in 1..(to - from + 1) |-> PointKey(objectId, from + k - 1)]

EdgeKeys(objectId, from, to) ==
    [k \in 1..(to - from + 1) |-> EdgeKey(objectId, from + k - 1)]

\* ------------------------------------------------------------------------
\* Scene store
\* ------------------------------------------------------------------------

LineEdge(a, b) == [points |-> <<a, b>>, type |-> "line",
                   rx |-> 0, ry |-> 0, largeArc |-> 0, sweep |-> 0]

ArcEdge(a, b, r, largeArc, sweep) == [points |-> <<a, b>>, type |-> "arc",
                   rx |-> r, ry |-> r, largeArc |-> largeArc, sweep |-> sweep]

createRectangle(id, x, y, w, h) ==
    [id |-> id, type |-> "rectangle",
     points |-> <<Pt(x, y), Pt(x + w, y), Pt(x + w, y + h), Pt(x, y + h)>>,
     edges |-> <<LineEdge(0, 1), LineEdge(1, 2), LineEdge(2, 3), LineEdge(3, 0)>>,
     handles |-> <<>>, closed |-> TRUE]

createCircle(id, cx, cy, r0) ==
    LET r == Max2(Px(1), r0)
    IN [id |-> id, type |-> "circle",
        points |-> <<Pt(cx, cy - r), Pt(cx + r, cy), Pt(cx, cy + r), Pt(cx - r, cy)>>,
        edges |-> <<ArcEdge(0, 2, r, 0, 1), ArcEdge(2, 0, r, 0, 1)>>,
        handles |-> <<>>, closed |-> TRUE]

\* the object finishDrawing builds from a polyline of `pts`
createPath(id, pts, closed) ==
    [id |-> id, type |-> "path",
     points |-> pts,
     edges |-> [k \in 1..(IF closed THEN Len(pts) ELSE Len(pts) - 1) |->
                   IF k = Len(pts) THEN LineEdge(k - 1, 0) ELSE LineEdge(k - 1, k)],
     handles |-> <<>>, closed |-> closed]

\* state.objects.find(o => o.id === objectId) is defined
HasObject(s, objectId) == \E k \in 1..Len(s.objects) : s.objects[k].id = objectId

\* state.objects.find(o => o.id === objectId)
FindObject(s, objectId) ==
    s.objects[CHOOSE k \in 1..Len(s.objects) :
                 s.objects[k].id = objectId
                 /\ \A j \in 1..(k - 1) : s.objects[j].id # objectId]

\* ------------------------------------------------------------------------
\* Selection management (paths.js)
\* ------------------------------------------------------------------------

clearSelections(s) ==
    [s EXCEPT !.selectedObjectIds = <<>>,
              !.selectedPointIndices = <<>>,
              !.selectedEdgeIndices = <<>>,
              !.selectedObjectId = NullId,
              !.selectedPointIndex = NullIndex,
              !.selectedEdgeIndex = NullIndex]

isObjectSelected(s, objectId) ==
    Includes(s.selectedObjectIds, objectId) \/ s.selectedObjectId = objectId

isPointSelected(s, objectId, pointIndex) ==
    \/ Includes(s.selectedPointIndices, PointKey(objectId, pointIndex))
    \/ (s.selectedObjectId = objectId /\ s.selectedPointIndex = pointIndex)

isEdgeSelected(s, objectId, edgeIndex) ==
    \/ Includes(s.selectedEdgeIndices, EdgeKey(objectId, edgeIndex))
    \/ (s.selectedObjectId = objectId /\ s.selectedEdgeIndex = edgeIndex)

syncEdgeToObjectSelection(s, objectId) ==
    IF ~HasObject(s, objectId) THEN s
    ELSE LET obj == FindObject(s, objectId)
             allEdgesSelected ==
                 \A i \in 0..(Len(obj.edges) - 1) :
                     Includes(s.selectedEdgeIndices, EdgeKey(objectId, i))
         IN IF allEdgesSelected /\ Len(obj.edges) > 0
            THEN [s EXCEPT !.selectedObjectIds = PushNew(@, objectId),
                           !.selectedObjectId = objectId]
            ELSE s

\* the edges of obj, ascending, whose two endpoints are both selected
EdgesWithBothPoints(s, obj, objectId) ==
    SelectSeq(EdgeKeys(objectId, 0, Len(obj.edges) - 1),
              LAMBDA e :
                  /\ Includes(s.selectedPointIndices,
                              PointKey(objectId, At(obj.edges, e.edgeIndex).points[1]))
                  /\ Includes(s.selectedPointIndices,
                              PointKey(objectId, At(obj.edges, e.edgeIndex).points[2])))

syncPointToEdgeSelection(s, objectId) ==
    IF ~HasObject(s, objectId) THEN s
    ELSE LET obj == FindObject(s, objectId)
             s1 == [s EXCEPT !.selectedEdgeIndices =
                        PushAllNew(@, EdgesWithBothPoints(s, obj, objectId))]
         IN syncEdgeToObjectSelection(s1, objectId)

\* selectObject without its "select all points" loop
selectObject_SkipPoints(s, objectId, addToSelection) ==
    LET s1 == IF ~addToSelection THEN clearSelections(s) ELSE s
        s2 == [s1 EXCEPT !.selectedObjectIds = PushNew(@, objectId),
                         !.selectedObjectId = objectId]
    IN IF ~HasObject(s2, objectId) THEN s2
       ELSE [s2 EXCEPT
               !.selectedEdgeIndices =
                   PushAllNew(@, EdgeKeys(objectId, 0,
                                          Len(FindObject(s2, objectId).edges) - 1))]

selectObject(s, objectId, addToSelection) ==
    LET s1 == IF ~addToSelection THEN clearSelections(s) ELSE s
        s2 == [s1 EXCEPT !.selectedObjectIds = PushNew(@, objectId),
                         !.selectedObjectId = objectId]
    IN IF ~HasObject(s2, objectId) THEN s2
       ELSE LET obj == FindObject(s2, objectId)
            IN [s2 EXCEPT
                  !.selectedEdgeIndices =
                      PushAllNew(@, EdgeKeys(objectId, 0, Len(obj.edges) - 1)),
                  !.selectedPointIndices =
                      PushAllNew(@, PointKeys(objectId, 0, Len(obj.points) - 1))]

\* selectPoint that leaves the object selection alone
selectPoint_NoObject(s, objectId, pointIndex, addToSelection) ==
    LET s1 == IF ~addToSelection THEN clearSelections(s) ELSE s
    IN [s1 EXCEPT
          !.selectedPointIndices = PushNew(@, PointKey(objectId, pointIndex)),
          !.selectedObjectId = objectId,
          !.selectedPointIndex = pointIndex]

selectPoint(s, objectId, pointIndex, addToSelection) ==
    LET s1 == IF ~addToSelection THEN clearSelections(s) ELSE s
        s2 == [s1 EXCEPT
                 !.selectedPointIndices = PushNew(@, PointKey(objectId, pointIndex)),
                 !.selectedObjectId = objectId,
                 !.selectedPointIndex = pointIndex,
                 !.selectedObjectIds = PushNew(@, objectId)]
    IN syncPointToEdgeSelection(s2, objectId)

\* variant of selectPointRange that walks from fromIndex up to toIndex only
selectPointRange_Forward(s, objectId, fromIndex, toIndex) ==
    IF ~HasObject(s, objectId) THEN s
    ELSE LET s1 == [s EXCEPT
                      !.selectedPointIndices =
                          PushAllNew(@, PointKeys(objectId, fromIndex, toIndex)),
                      !.selectedObjectId = objectId,
                      !.selectedPointIndex = toIndex,
                      !.selectedObjectIds = PushNew(@, objectId)]
         IN syncPointToEdgeSelection(s1, objectId)

selectPointRange(s, objectId, fromIndex, toIndex) ==
    IF ~HasObject(s, objectId) THEN s
    ELSE LET minIdx == Min2(fromIndex, toIndex)
             maxIdx == Max2(fromIndex, toIndex)
             s1 == [s EXCEPT
                      !.selectedPointIndices =
                          PushAllNew(@, PointKeys(objectId, minIdx, maxIdx)),
                      !.selectedObjectId = objectId,
                      !.selectedPointIndex = toIndex,
                      !.selectedObjectIds = PushNew(@, objectId)]
         IN syncPointToEdgeSelection(s1, objectId)

\* edge.points.forEach(ptIdx => push (objectId, ptIdx) if new)
EdgePointKeys(objectId, edge) ==
    <<PointKey(objectId, edge.points[1]), PointKey(objectId, edge.points[2])>>

selectEdge(s, objectId, edgeIndex, addToSelection) ==
    LET s1 == IF ~addToSelection THEN clearSelections(s) ELSE s
        s2 == [s1 EXCEPT
                 !.selectedEdgeIndices = PushNew(@, EdgeKey(objectId, edgeIndex)),
                 !.selectedObjectId = objectId,
                 !.selectedEdgeIndex = edgeIndex,
                 !.selectedObjectIds = PushNew(@, objectId)]
        s3 == IF HasObject(s2, objectId)
                 /\ InRange(FindObject(s2, objectId).edges, edgeIndex)
              THEN [s2 EXCEPT !.selectedPointIndices =
                       PushAllNew(@, EdgePointKeys(objectId,
                                        At(FindObject(s2, objectId).edges, edgeIndex)))]
              ELSE s2
    IN syncEdgeToObjectSelection(s3, objectId)

RECURSIVE SelectEdgeRangeLoop(_, _, _, _, _)
SelectEdgeRangeLoop(s, obj, objectId, i, maxIdx) ==
    IF i > maxIdx THEN s
    ELSE LET s1 == [s EXCEPT !.selectedEdgeIndices = PushNew(@, EdgeKey(objectId, i))]
             s2 == IF InRange(obj.edges, i)
                   THEN [s1 EXCEPT !.selectedPointIndices =
                            PushAllNew(@, EdgePointKeys(objectId, At(obj.edges, i)))]
                   ELSE s1
         IN SelectEdgeRangeLoop(s2, obj, objectId, i + 1, maxIdx)

selectEdgeRange(s, objectId, fromIndex, toIndex) ==
    IF ~HasObject(s, objectId) THEN s
    ELSE LET minIdx == Min2(fromIndex, toIndex)
             maxIdx == Max2(fromIndex, toIndex)
             s1 == SelectEdgeRangeLoop(s, FindObject(s, objectId), objectId, minIdx, maxIdx)
             s2 == [s1 EXCEPT !.selectedObjectId = objectId,
                              !.selectedEdgeIndex = toIndex,
                              !.selectedObjectIds = PushNew(@, objectId)]
         IN syncEdgeToObjectSelection(s2, objectId)

RECURSIVE SelectAllLoop(_, _)
SelectAllLoop(s, k) ==
    IF k > Len(s.objects) THEN s
    ELSE SelectAllLoop(selectObject(s, s.objects[k].id, TRUE), k + 1)

selectAllObjects(s) == SelectAllLoop(clearSelections(s), 1)

selectAllPointsAndEdges(s) ==
    IF s.selectedObjectId = NullId THEN s
    ELSE IF ~HasObject(s, s.selectedObjectId) THEN s
    ELSE LET obj == FindObject(s, s.selectedObjectId)
         IN [s EXCEPT
               !.selectedPointIndices =
                   PushAllNew(@, PointKeys(obj.id, 0, Len(obj.points) - 1)),
               !.selectedEdgeIndices =
                   PushAllNew(@, EdgeKeys(obj.id, 0, Len(obj.edges) - 1))]

\* array[0]?.<index> || null : index 0 is falsy
FirstIndexOrNull(seq, field) ==
    IF seq = <<>> THEN NullIndex
    ELSE IF seq[1][field] = 0 THEN NullIndex ELSE seq[1][field]

\* toggleObjectSelection that forgets to drop the object's point selections
toggleObjectSelection_KeepPoints(s, objectId) ==
    LET idx == IndexOf(s.selectedObjectIds, objectId)
    IN IF idx >= 0
       THEN LET ids == Splice(s.selectedObjectIds, idx)
                s1 == [s EXCEPT
                         !.selectedObjectIds = ids,
                         !.selectedEdgeIndices =
                             SelectSeq(@, LAMBDA e : e.objectId # objectId)]
            IN IF s1.selectedObjectId = objectId
               THEN [s1 EXCEPT
                       !.selectedObjectId = IF ids = <<>> THEN NullId ELSE ids[1],
                       !.selectedPointIndex = NullIndex,
                       !.selectedEdgeIndex = NullIndex]
               ELSE s1
       ELSE selectObject(s, objectId, TRUE)

\* toggleObjectSelection that forgets to drop the object's edge selections
toggleObjectSelection_KeepEdges(s, objectId) ==
    LET idx == IndexOf(s.selectedObjectIds, objectId)
    IN IF idx >= 0
       THEN LET ids == Splice(s.selectedObjectIds, idx)
                s1 == [s EXCEPT
                         !.selectedObjectIds = ids,
                         !.selectedPointIndices =
                             SelectSeq(@, LAMBDA p : p.objectId # objectId)]
            IN IF s1.selectedObjectId = objectId
               THEN [s1 EXCEPT
                       !.selectedObjectId = IF ids = <<>> THEN NullId ELSE ids[1],
                       !.selectedPointIndex = NullIndex,
                       !.selectedEdgeIndex = NullIndex]
               ELSE s1
       ELSE selectObject(s, objectId, TRUE)

toggleObjectSelection(s, objectId) ==
    LET idx == IndexOf(s.selectedObjectIds, objectId)
    IN IF idx >= 0
       THEN LET ids == Splice(s.selectedObjectIds, idx)
                s1 == [s EXCEPT
                         !.selectedObjectIds = ids,
                         !.selectedPointIndices =
                             SelectSeq(@, LAMBDA p : p.objectId # objectId),
                         !.selectedEdgeIndices =
                             SelectSeq(@, LAMBDA e : e.objectId # objectId)]
            IN IF s1.selectedObjectId = objectId
               THEN [s1 EXCEPT
                       !.selectedObjectId = IF ids = <<>> THEN NullId ELSE ids[1],
                       !.selectedPointIndex = NullIndex,
                       !.selectedEdgeIndex = NullIndex]
               ELSE s1
       ELSE selectObject(s, objectId, TRUE)

\* deselectEdgesWithPoint that removes no edge
deselectEdgesWithPoint_KeepEdges(s, objectId, pointIndex) ==
    syncEdgeToObjectSelection(s, objectId)

\* the selected edges of obj that have pointIndex as an endpoint, removed one by one
deselectEdgesWithPoint(s, objectId, pointIndex) ==
    IF ~HasObject(s, objectId) THEN s
    ELSE LET obj == FindObject(s, objectId)
             s1 == [s EXCEPT !.selectedEdgeIndices =
                       SelectSeq(@, LAMBDA e :
                           ~(/\ e.objectId = objectId
                             /\ InRange(obj.edges, e.edgeIndex)
                             /\ \/ At(obj.edges, e.edgeIndex).points[1] = pointIndex
                                \/ At(obj.edges, e.edgeIndex).points[2] = pointIndex))]
         IN syncEdgeToObjectSelection(s1, objectId)

\* variant of togglePointSelection that drops every point of the object
togglePointSelection_DropAll(s, objectId, pointIndex) ==
    LET idx == IndexOf(s.selectedPointIndices, PointKey(objectId, pointIndex))
    IN IF idx >= 0
       THEN toggleObjectSelection(
                [s EXCEPT !.selectedObjectIds = PushNew(@, objectId)], objectId)
       ELSE selectPoint(s, objectId, pointIndex, TRUE)

togglePointSelection(s, objectId, pointIndex) ==
    LET idx == IndexOf(s.selectedPointIndices, PointKey(objectId, pointIndex))
    IN IF idx >= 0
       THEN LET pts == Splice(s.selectedPointIndices, idx)
                s1 == [s EXCEPT
                         !.selectedPointIndices = pts,
                         !.selectedPointIndex =
                             IF s.selectedPointIndex = pointIndex
                                /\ s.selectedObjectId = objectId
                             THEN FirstIndexOrNull(pts, "pointIndex")
                             ELSE @]
            IN syncPointToEdgeSelection(
                   deselectEdgesWithPoint(s1, objectId, pointIndex), objectId)
       ELSE selectPoint(s, objectId, pointIndex, TRUE)

\* variant of toggleEdgeSelection that demotes the object of a deselected edge
toggleEdgeSelection_Demote(s, objectId, edgeIndex) ==
    LET idx == IndexOf(s.selectedEdgeIndices, EdgeKey(objectId, edgeIndex))
    IN IF idx >= 0
       THEN [s EXCEPT
               !.selectedEdgeIndices = Splice(@, idx),
               !.selectedObjectIds = SelectSeq(@, LAMBDA o : o # objectId)]
       ELSE selectEdge(s, objectId, edgeIndex, TRUE)

toggleEdgeSelection(s, objectId, edgeIndex) ==
    LET idx == IndexOf(s.selectedEdgeIndices, EdgeKey(objectId, edgeIndex))
    IN IF idx >= 0
       THEN LET es == Splice(s.selectedEdgeIndices, idx)
            IN [s EXCEPT
                  !.selectedEdgeIndices = es,
                  !.selectedEdgeIndex =
                      IF s.selectedEdgeIndex = edgeIndex /\ s.selectedObjectId = objectId
                      THEN FirstIndexOrNull(es, "edgeIndex")
                      ELSE @]
       ELSE selectEdge(s, objectId, edgeIndex, TRUE)

\* variant of the containment test that leaves the boundary out
InBox_Open(p, box) == /\ p.x > box.x /\ p.x < box.x + box.width
                      /\ p.y > box.y /\ p.y < box.y + box.height

InBox(p, box) == /\ p.x >= box.x /\ p.x <= box.x + box.width
                 /\ p.y >= box.y /\ p.y <= box.y + box.height

\* one object of selectInBox's first loop
SelectInBoxObject(s, obj, box) ==
    LET pointsInBox == SelectSeq(PointKeys(obj.id, 0, Len(obj.points) - 1),
                                 LAMBDA p : InBox(At(obj.points, p.pointIndex), box))
        edgesInBox == SelectSeq(EdgeKeys(obj.id, 0, Len(obj.edges) - 1),
                                LAMBDA e :
                                    /\ InBox(At(obj.points,
                                                At(obj.edges, e.edgeIndex).points[1]), box)
                                    /\ InBox(At(obj.points,
                                                At(obj.edges, e.edgeIndex).points[2]), box))
    IN IF Len(pointsInBox) > 0
       THEN [s EXCEPT !.selectedObjectIds = PushNew(@, obj.id),
                      !.selectedPointIndices = PushAllNew(@, pointsInBox),
                      !.selectedEdgeIndices = PushAllNew(@, edgesInBox)]
       ELSE s

RECURSIVE SelectInBoxLoop(_, _, _)
SelectInBoxLoop(s, box, k) ==
    IF k > Len(s.objects) THEN s
    ELSE SelectInBoxLoop(SelectInBoxObject(s, s.objects[k], box), box, k + 1)

RECURSIVE SelectInBoxSync(_, _)
SelectInBoxSync(s, k) ==
    IF k > Len(s.selectedObjectIds) THEN s
    ELSE LET id == s.selectedObjectIds[k]
         IN SelectInBoxSync(
                syncEdgeToObjectSelection(syncPointToEdgeSelection(s, id), id), k + 1)

selectInBox(s, box, addToSelection) ==
    LET s1 == IF ~addToSelection THEN clearSelections(s) ELSE s
        s2 == SelectInBoxLoop(s1, box, 1)
        s3 == SelectInBoxSync(s2, 1)
    IN IF Len(s3.selectedObjectIds) > 0
       THEN [s3 EXCEPT !.selectedObjectId = s3.selectedObjectIds[1]]
       ELSE s3

\* ------------------------------------------------------------------------
\* The state object (paths.js) and the scenes the specifications start from
\* ------------------------------------------------------------------------

NoInteraction == "null"

NewState(objects, objectCounter, tool) ==
    [tool |-> tool,
     objects |-> objects,
     selectedObjectIds |-> <<>>,
     selectedPointIndices |-> <<>>,
     selectedEdgeIndices |-> <<>>,
     selectedObjectId |-> NullId,
     selectedPointIndex |-> NullIndex,
     selectedEdgeIndex |-> NullIndex,
     interaction |-> NoInteraction,
     dragStart |-> Pt(0, 0),
     resizeHandle |-> "null",
     initialPoints |-> <<>>,
     initialBbox |-> <<>>,
     initialEdges |-> <<>>,
     initialHandles |-> <<>>,
     rotationCenter |-> <<>>,
     objectCounter |-> objectCounter,
     currentMouse |-> Pt(0, 0),
     selectionBox |-> <<>>,
     isSelecting |-> FALSE,
     isDrawing |-> FALSE,
     drawingPoints |-> <<>>,
     drawingEdges |-> <<>>,
     drawingHandles |-> <<>>,
     isDraggingHandle |-> FALSE]

\* A closed three-point polyline and an open two-point polyline, as
\* finishDrawing leaves them; a third shape, obj_3, was drawn and deleted.
SelScene ==
    <<createPath(1, <<Pt(Px(10), Px(10)), Pt(Px(50), Px(10)), Pt(Px(30), Px(40))>>, TRUE),
      createPath(2, <<Pt(Px(70), Px(10)), Pt(Px(70), Px(40))>>, FALSE)>>

\* the longest sequence of selection operations explored
MaxCalls == 4

ObjectIds(s) == {s.objects[k].id : k \in 1..Len(s.objects)}

PointIndexes(s, id) == 0..(Len(FindObject(s, id).points) - 1)

EdgeIndexes(s, id) == 0..(Len(FindObject(s, id).edges) - 1)

Box(x, y, w, h) == [x |-> x, y |-> y, width |-> w, height |-> h]

\* marquee rectangles: one point of the closed path, one of its edges, all of
\* it, its right point and the open path's upper point (inside the rectangle,
\* then on its corners), everything, nothing
SelBoxes ==
    {Box(Px(5), Px(5), Px(10), Px(10)),
     Box(Px(5), Px(5), Px(50), Px(10)),
     Box(Px(5), Px(5), Px(50), Px(40)),
     Box(Px(45), Px(5), Px(30), Px(10)),
     Box(Px(50), Px(10), Px(20), Px(20)),
     Box(Px(0), Px(0), Px(100), Px(60)),
     Box(Px(0), Px(50), Px(5), Px(5))}

InitSel == /\ state = NewState(SelScene, 3, "select")
           /\ lastEvent = "init"
           /\ gesture = "none"
           /\ calls = 0

DoClearSelections ==
    state' = clearSelections(state)

DoSelectObject ==
    \E id \in ObjectIds(state), add \in BOOLEAN :
        state' = selectObject(state, id, add)

DoSelectPoint ==
    \E id \in ObjectIds(state), add \in BOOLEAN :
        \E i \in PointIndexes(state, id) :
            state' = selectPoint(state, id, i, add)

DoSelectPointRange ==
    \E id \in ObjectIds(state) :
        \E i \in PointIndexes(state, id), j \in PointIndexes(state, id) :
            state' = selectPointRange(state, id, i, j)

DoSelectEdge ==
    \E id \in ObjectIds(state), add \in BOOLEAN :
        \E e \in EdgeIndexes(state, id) :
            state' = selectEdge(state, id, e, add)

DoSelectEdgeRange ==
    \E id \in ObjectIds(state) :
        \E e \in EdgeIndexes(state, id), f \in EdgeIndexes(state, id) :
            state' = selectEdgeRange(state, id, e, f)

DoToggleObjectSelection ==
    \E id \in ObjectIds(state) :
        state' = toggleObjectSelection(state, id)

DoTogglePointSelection ==
    \E id \in ObjectIds(state) :
        \E i \in PointIndexes(state, id) :
            state' = togglePointSelection(state, id, i)

DoToggleEdgeSelection ==
    \E id \in ObjectIds(state) :
        \E e \in EdgeIndexes(state, id) :
            state' = toggleEdgeSelection(state, id, e)

DoSelectInBox ==
    \E box \in SelBoxes, add \in BOOLEAN :
        state' = selectInBox(state, box, add)

DoSelectAllObjects ==
    state' = selectAllObjects(state)

DoSelectAllPointsAndEdges ==
    state' = selectAllPointsAndEdges(state)

\* one more operation, while the bound allows
Step == /\ calls < MaxCalls
        /\ calls' = calls + 1
        /\ UNCHANGED <<lastEvent, gesture>>

NextSel ==
    \/ Step /\ DoClearSelections
    \/ Step /\ DoSelectObject
    \/ Step /\ DoSelectPoint
    \/ Step /\ DoSelectPointRange
    \/ Step /\ DoSelectEdge
    \/ Step /\ DoSelectEdgeRange
    \/ Step /\ DoToggleObjectSelection
    \/ Step /\ DoTogglePointSelection
    \/ Step /\ DoToggleEdgeSelection
    \/ Step /\ DoSelectInBox
    \/ Step /\ DoSelectAllObjects
    \/ Step /\ DoSelectAllPointsAndEdges

SpecSel == InitSel /\ [][NextSel]_vars

\* ------------------------------------------------------------------------
\* Selection operations called with stale references
\* ------------------------------------------------------------------------

\* the id of the deleted shape
StaleId == 3

AnyIds(s) == ObjectIds(s) \cup {StaleId}

\* index 0 and the index one past the end of the longest point array
AnyIndexes(s) ==
    {0, CHOOSE n \in 0..8 : \A k \in 1..Len(s.objects) :
            /\ n >= Len(s.objects[k].points)
            /\ \E j \in 1..Len(s.objects) : n = Len(s.objects[j].points)}

StalePoint(s, id, i) ==
    IF HasObject(s, id) THEN ~InRange(FindObject(s, id).points, i) ELSE TRUE

StaleEdge(s, id, e) ==
    IF HasObject(s, id) THEN ~InRange(FindObject(s, id).edges, e) ELSE TRUE

DoStaleSelectObject ==
    state' = selectObject(state, StaleId, TRUE)

DoStaleSelectPoint ==
    \E id \in AnyIds(state), i \in AnyIndexes(state) :
        /\ StalePoint(state, id, i)
        /\ state' = selectPoint(state, id, i, TRUE)

DoStaleSelectPointRange ==
    \E id \in AnyIds(state), i \in AnyIndexes(state), j \in AnyIndexes(state) :
        /\ (IF StalePoint(state, id, i) THEN TRUE ELSE StalePoint(state, id, j))
        /\ state' = selectPointRange(state, id, i, j)

DoStaleSelectEdge ==
    \E id \in AnyIds(state), e \in AnyIndexes(state) :
        /\ StaleEdge(state, id, e)
        /\ state' = selectEdge(state, id, e, TRUE)

DoStaleSelectEdgeRange ==
    \E id \in AnyIds(state), e \in AnyIndexes(state), f \in AnyIndexes(state) :
        /\ (IF StaleEdge(state, id, e) THEN TRUE ELSE StaleEdge(state, id, f))
        /\ state' = selectEdgeRange(state, id, e, f)

DoStaleToggleObjectSelection ==
    state' = toggleObjectSelection(state, StaleId)

DoStaleTogglePointSelection ==
    \E id \in AnyIds(state), i \in AnyIndexes(state) :
        /\ StalePoint(state, id, i)
        /\ state' = togglePointSelection(state, id, i)

DoStaleToggleEdgeSelection ==
    \E id \in AnyIds(state), e \in AnyIndexes(state) :
        /\ StaleEdge(state, id, e)
        /\ state' = toggleEdgeSelection(state, id, e)

NextStale ==
    \/ Step /\ DoSelectObject
    \/ Step /\ DoSelectPoint
    \/ Step /\ DoSelectEdge
    \/ Step /\ DoStaleSelectObject
    \/ Step /\ DoStaleSelectPoint
    \/ Step /\ DoStaleSelectPointRange
    \/ Step /\ DoStaleSelectEdge
    \/ Step /\ DoStaleSelectEdgeRange
    \/ Step /\ DoStaleToggleObjectSelection
    \/ Step /\ DoStaleTogglePointSelection
    \/ Step /\ DoStaleToggleEdgeSelection

SpecStale == InitSel /\ [][NextStale]_vars

\* ------------------------------------------------------------------------
\* Selection claims
\* ------------------------------------------------------------------------

PointSelected(s, id, i) == Includes(s.selectedPointIndices, PointKey(id, i))

EdgeSelected(s, id, e) == Includes(s.selectedEdgeIndices, EdgeKey(id, e))

EdgeEnd(s, id, e, n) == At(FindObject(s, id).edges, e).points[n]

AllEdgesSelected(s, id) ==
    /\ Len(FindObject(s, id).edges) > 0
    /\ \A e \in EdgeIndexes(s, id) : EdgeSelected(s, id, e)

AllPointsSelected(s, id) ==
    \A i \in PointIndexes(s, id) : PointSelected(s, id, i)

\* the three selection sets and the primary selection
Selection(s) == <<s.selectedObjectIds, s.selectedPointIndices,
                  s.selectedEdgeIndices, s.selectedObjectId>>

\* C1 (I1, edge -> points): every selected edge has both of its endpoints
\* among the selected points of its object.
C1_EdgeImpliesPoints ==
    \A id \in ObjectIds(state) : \A e \in EdgeIndexes(state, id) :
        EdgeSelected(state, id, e) =>
            /\ PointSelected(state, id, EdgeEnd(state, id, e, 1))
            /\ PointSelected(state, id, EdgeEnd(state, id, e, 2))

\* C1 witness: after a deselection, the closed path keeps a selected edge
\* while one of its points is not selected.
C1_Witness ==
    /\ calls >= 2
    /\ \E e \in EdgeIndexes(state, 1) : EdgeSelected(state, 1, e)
    /\ \E i \in PointIndexes(state, 1) : ~PointSelected(state, 1, i)
    /\ \E e \in EdgeIndexes(state, 1) : ~EdgeSelected(state, 1, e)

\* C2 (I2, points -> edge): every edge whose two endpoints are both selected
\* is itself selected.
C2_PointsImplyEdge ==
    \A id \in ObjectIds(state) : \A e \in EdgeIndexes(state, id) :
        (/\ PointSelected(state, id, EdgeEnd(state, id, e, 1))
         /\ PointSelected(state, id, EdgeEnd(state, id, e, 2)))
            => EdgeSelected(state, id, e)

\* C3 (I3, edges -> object): an object with at least one edge and all of its
\* edges selected has its id among the selected object ids.
C3_EdgesImplyObject ==
    \A id \in ObjectIds(state) :
        AllEdgesSelected(state, id) => Includes(state.selectedObjectIds, id)

\* C3 witness: every edge of the closed path is selected while the open path
\* is only partly selected.
C3_Witness ==
    /\ AllEdgesSelected(state, 1)
    /\ Includes(state.selectedObjectIds, 1)
    /\ PointSelected(state, 2, 0)
    /\ ~EdgeSelected(state, 2, 0)

\* what selectObject(id, add) promises of the state t it leaves from s
SelectObjectPost(s, t, id, add) ==
    /\ Includes(t.selectedObjectIds, id)
    /\ t.selectedObjectId = id
    /\ AllPointsSelected(t, id)
    /\ AllEdgesSelected(t, id)
    /\ ~add => /\ t.selectedObjectIds = <<id>>
               /\ \A k \in 1..Len(t.selectedPointIndices) :
                      t.selectedPointIndices[k].objectId = id
               /\ \A k \in 1..Len(t.selectedEdgeIndices) :
                      t.selectedEdgeIndices[k].objectId = id
    /\ add => /\ \A k \in 1..Len(s.selectedObjectIds) :
                     Includes(t.selectedObjectIds, s.selectedObjectIds[k])
              /\ \A k \in 1..Len(s.selectedPointIndices) :
                     Includes(t.selectedPointIndices, s.selectedPointIndices[k])
              /\ \A k \in 1..Len(s.selectedEdgeIndices) :
                     Includes(t.selectedEdgeIndices, s.selectedEdgeIndices[k])

\* C4 (I4): selectObject(id, additive) on an existing object leaves the id
\* selected and primary with all of its points and edges selected; replacing,
\* nothing of another object stays selected; additive, nothing is lost.
C4_SelectObjectSelectsAll ==
    [][\A id \in ObjectIds(state), add \in BOOLEAN :
          state' = selectObject(state, id, add)
              => SelectObjectPost(state, state', id, add)]_vars

\* C4 witness: the open path was selected additively on top of a partial
\* selection of the closed path.
C4_Witness ==
    /\ state.selectedObjectId = 2
    /\ state.selectedObjectIds = <<1, 2>>
    /\ AllPointsSelected(state, 2)
    /\ AllEdgesSelected(state, 2)
    /\ PointSelected(state, 1, 0)
    /\ ~AllPointsSelected(state, 1)

\* C5: a selection operation given an id that resolves to no object, or an
\* index outside the object's arrays, leaves the selection as it was.
C5_StaleCallIsNoOp ==
    [][(\/ DoStaleSelectObject \/ DoStaleSelectPoint \/ DoStaleSelectPointRange
        \/ DoStaleSelectEdge \/ DoStaleSelectEdgeRange
        \/ DoStaleToggleObjectSelection \/ DoStaleTogglePointSelection
        \/ DoStaleToggleEdgeSelection)
          => Selection(state') = Selection(state)]_vars

\* ------------------------------------------------------------------------
\* Geometry helpers (paths.js)
\* ------------------------------------------------------------------------

\* a / b for b > 0, rounded to the nearest integer
DivR(a, b) == (2 * a + b) \div (2 * b)

RECURSIVE SqrtSearch(_, _, _)
SqrtSearch(n, lo, hi) ==
    IF lo >= hi THEN lo
    ELSE LET mid == (lo + hi + 1) \div 2
         IN IF mid * mid <= n THEN SqrtSearch(n, mid, hi)
                              ELSE SqrtSearch(n, lo, mid - 1)

\* Math.sqrt(n), rounded to the nearest integer
Sqrt(n) == LET f == SqrtSearch(n, 0, Min2(n, 46340))
           IN IF n - f * f > f THEN f + 1 ELSE f

DistSq(p1, p2) == (p2.x - p1.x) * (p2.x - p1.x) + (p2.y - p1.y) * (p2.y - p1.y)

dist(p1, p2) == Sqrt(DistSq(p1, p2))

\* dist(p1, p2) < r
Near(p1, p2, r) == DistSq(p1, p2) < r * r

MinOf(S) == CHOOSE v \in S : \A w \in S : v <= w

MaxOf(S) == CHOOSE v \in S : \A w \in S : v >= w

getBoundingBox(points) ==
    IF Len(points) = 0 THEN [x |-> 0, y |-> 0, width |-> 0, height |-> 0]
    ELSE LET xs == {points[k].x : k \in 1..Len(points)}
             ys == {points[k].y : k \in 1..Len(points)}
         IN [x |-> MinOf(xs), y |-> MinOf(ys),
             width |-> Max2(Px(1), MaxOf(xs) - MinOf(xs)),
             height |-> Max2(Px(1), MaxOf(ys) - MinOf(ys))]

getTransformedBoundingBox(obj) == getBoundingBox(obj.points)

\* ------------------------------------------------------------------------
\* Hit testing (paths.js)
\* ------------------------------------------------------------------------

\* the hit radius of points, edges, resize handles and the rotation handle
HitRadius == Px(10)

\* the outward margin of the bounding box in hitTestObject
HitMargin == Px(5)

\* the point a + clamp(proj, 0, 1) * (b - a) of distToSegment
ClosestOnSegment(p, a, b) ==
    LET abx == b.x - a.x
        aby == b.y - a.y
        dot == (p.x - a.x) * abx + (p.y - a.y) * aby
        len2 == IF abx * abx + aby * aby = 0 THEN 1 ELSE abx * abx + aby * aby
    IN IF dot <= 0 THEN a
       ELSE IF dot >= len2 THEN Pt(a.x + abx, a.y + aby)
       ELSE Pt(a.x + DivR(abx * dot, len2), a.y + DivR(aby * dot, len2))

\* distToSegment(p, a, b) < r
NearSegment(p, a, b, r) == Near(p, ClosestOnSegment(p, a, b), r)

\* the topmost object whose bounding box, grown by the margin, holds pos
hitTestObject(s, pos) ==
    LET hit(k) == LET bbox == getTransformedBoundingBox(s.objects[k])
                  IN /\ pos.x >= bbox.x - HitMargin
                     /\ pos.x <= bbox.x + bbox.width + HitMargin
                     /\ pos.y >= bbox.y - HitMargin
                     /\ pos.y <= bbox.y + bbox.height + HitMargin
        ks == {k \in 1..Len(s.objects) : hit(k)}
    IN IF ks = {} THEN NullId ELSE s.objects[MaxOf(ks)].id

hitTestEdge(pos, obj) ==
    LET hit(k) == LET edge == obj.edges[k]
                  IN NearSegment(pos, At(obj.points, edge.points[1]),
                                 At(obj.points, edge.points[2]), HitRadius)
        ks == {k \in 1..Len(obj.edges) : hit(k)}
    IN IF ks = {} THEN NullIndex ELSE MinOf(ks) - 1

\* the eight handles in the order hitTestHandle enumerates them
ResizeHandles(bbox) ==
    << [name |-> "nw", at |-> Pt(bbox.x, bbox.y)],
       [name |-> "n",  at |-> Pt(bbox.x + DivR(bbox.width, 2), bbox.y)],
       [name |-> "ne", at |-> Pt(bbox.x + bbox.width, bbox.y)],
       [name |-> "e",  at |-> Pt(bbox.x + bbox.width, bbox.y + DivR(bbox.height, 2))],
       [name |-> "se", at |-> Pt(bbox.x + bbox.width, bbox.y + bbox.height)],
       [name |-> "s",  at |-> Pt(bbox.x + DivR(bbox.width, 2), bbox.y + bbox.height)],
       [name |-> "sw", at |-> Pt(bbox.x, bbox.y + bbox.height)],
       [name |-> "w",  at |-> Pt(bbox.x, bbox.y + DivR(bbox.height, 2))] >>

hitTestHandle(pos, bbox) ==
    LET hs == ResizeHandles(bbox)
        ks == {k \in 1..Len(hs) : Near(pos, hs[k].at, HitRadius)}
    IN IF ks = {} THEN "null" ELSE hs[MinOf(ks)].name

hitTestPoint(pos, obj) ==
    LET ks == {k \in 1..Len(obj.points) : Near(pos, obj.points[k], HitRadius)}
    IN IF ks = {} THEN NullIndex ELSE MinOf(ks) - 1

\* ------------------------------------------------------------------------
\* Gesture snapshots: state.initialPoints / initialEdges / initialHandles,
\* JavaScript objects keyed by object id, held as sequences of entries
\* ------------------------------------------------------------------------

SnapHas(m, id) == \E k \in 1..Len(m) : m[k].id = id

SnapGet(m, id) == m[CHOOSE k \in 1..Len(m) : m[k].id = id].value

\* m[id] = JSON.parse(JSON.stringify(value))
SnapSet(m, id, value) ==
    IF SnapHas(m, id)
    THEN [k \in 1..Len(m) |-> IF m[k].id = id THEN [id |-> id, value |-> value]
                                              ELSE m[k]]
    ELSE Append(m, [id |-> id, value |-> value])

\* the snapshot of one object: its points, its edges, its handles if any
SnapshotObject(s, o) ==
    [s EXCEPT !.initialPoints = SnapSet(s.initialPoints, o.id, o.points),
              !.initialEdges = SnapSet(s.initialEdges, o.id, o.edges),
              !.initialHandles = IF o.handles # <<>>
                                 THEN SnapSet(s.initialHandles, o.id, o.handles)
                                 ELSE s.initialHandles]

RECURSIVE SnapshotLoop(_, _)
SnapshotLoop(s, ids) ==
    IF ids = <<>> THEN s
    ELSE SnapshotLoop(IF HasObject(s, Head(ids))
                      THEN SnapshotObject(s, FindObject(s, Head(ids)))
                      ELSE s,
                      Tail(ids))

\* state.selectedObjectIds.forEach(objId => snapshot of the object)
SnapshotSelected(s) == SnapshotLoop(s, s.selectedObjectIds)

\* ------------------------------------------------------------------------
\* Path drawing with the polyline, arc and spline tools (board.js, toolbar.js)
\* state.drawingPoints / drawingEdges / drawingHandles are null (<<>>) or an
\* array (<<array>>)
\* ------------------------------------------------------------------------

DrawingTools == {"polyline", "arc", "spline"}

\* state.arcAngle and state.arcSweep, at their defaults
ArcAngle == 90

ArcSweep == 1

\* the distance from the first point within which a click closes the path
CloseRadius == Px(15)

\* the edge the arc tool draws from point a to point b: a line when the chord
\* is under one pixel, else an arc of R = chord / (2 sin(theta / 2)), with
\* sin(theta / 2) = 1 for the half circle of the angularity switch and
\* 0.7071 for the default arc angle of 90 degrees
getArcParamsFromAngle(pts, a, b, angleDeg, sweep) ==
    LET chord == dist(At(pts, a), At(pts, b))
        R == IF angleDeg = 180 THEN DivR(chord, 2) ELSE DivR(chord * 10000, 2 * 7071)
    IN IF chord < Px(1) THEN LineEdge(a, b)
       ELSE ArcEdge(a, b, R, IF angleDeg > 180 THEN 1 ELSE 0, sweep)

\* a bezier edge between two drawn points; its shape is in the handles
BezierEdge(a, b) == [points |-> <<a, b>>, type |-> "bezier",
                     rx |-> 0, ry |-> 0, largeArc |-> 0, sweep |-> 0]

\* the edge the current tool draws between points a and b of pts
DrawnEdge(s, pts, a, b) ==
    IF s.tool = "arc" THEN getArcParamsFromAngle(pts, a, b, ArcAngle, ArcSweep)
    ELSE IF s.tool = "spline" THEN BezierEdge(a, b)
    ELSE LineEdge(a, b)

\* drawingPoints = drawingEdges = drawingHandles = null
NoDrawing(s) ==
    [s EXCEPT !.drawingPoints = <<>>, !.drawingEdges = <<>>, !.drawingHandles = <<>>]

\* finishDrawing(canvas, closed): fewer than two points are dropped; else
\* the path, with its closing edge when closed, joins the scene under a new
\* id and becomes the selection
finishDrawing(s, closed) ==
    IF s.drawingPoints = <<>> THEN NoDrawing(s)
    ELSE IF Len(s.drawingPoints[1]) < 2 THEN NoDrawing(s)
    ELSE LET id == s.objectCounter + 1
             pts == s.drawingPoints[1]
             edges == IF closed
                      THEN Append(s.drawingEdges[1],
                                  DrawnEdge(s, pts, Len(pts) - 1, 0))
                      ELSE s.drawingEdges[1]
             hasBezierEdges == \E k \in 1..Len(edges) : edges[k].type = "bezier"
             obj == [id |-> id, type |-> "path", points |-> pts, edges |-> edges,
                     handles |-> IF hasBezierEdges /\ s.drawingHandles # <<>>
                                 THEN s.drawingHandles[1] ELSE <<>>,
                     closed |-> closed]
         IN NoDrawing(selectObject([s EXCEPT !.objectCounter = id,
                                             !.objects = Append(s.objects, obj),
                                             !.drawingEdges = <<edges>>],
                                   id, FALSE))

\* mousedown under a drawing tool: a click near the first point closes the
\* path when it may; else the click adds a point, the edge to it from the
\* last point, and a handle entry
DrawPoint(s0, pos) ==
    LET s == IF s0.drawingPoints = <<>>
             THEN [s0 EXCEPT !.drawingPoints = << <<>> >>,
                             !.drawingEdges = << <<>> >>,
                             !.drawingHandles = << <<>> >>]
             ELSE s0
        pts == s.drawingPoints[1]
        edges == s.drawingEdges[1]
        handles == s.drawingHandles[1]
        canClose == IF Len(pts) > 2 THEN TRUE
                    ELSE IF Len(pts) = 2
                    THEN \/ (Len(edges) > 0 /\ edges[1].type = "arc")
                         \/ s.tool = "arc"
                         \/ s.tool = "spline"
                    ELSE FALSE
        near == IF Len(pts) >= 2 THEN dist(pos, pts[1]) < CloseRadius ELSE FALSE
        newPts == Append(pts, pos)
        newEdges == IF Len(pts) > 0
                    THEN Append(edges, DrawnEdge(s, newPts, Len(pts) - 1, Len(pts)))
                    ELSE edges
        newHandles == handles \o [k \in 1..Max2(0, Len(newPts) - Len(handles)) |->
                                    [in |-> <<>>, out |-> <<>>]]
    IN IF near /\ canClose THEN finishDrawing(s, TRUE)
       ELSE [s EXCEPT !.drawingPoints = <<newPts>>,
                      !.drawingEdges = <<newEdges>>,
                      !.drawingHandles = <<newHandles>>,
                      !.isDraggingHandle = IF s.tool = "spline" THEN TRUE ELSE @]

\* mousemove while a path is drawn: the spline tool drags the out handle of
\* the last point and mirrors its in handle
DragOutHandle(s, pos) ==
    IF s.tool = "spline" /\ s.isDraggingHandle /\ s.drawingHandles # <<>>
    THEN LET n == Len(s.drawingPoints[1])
             pt == s.drawingPoints[1][n]
         IN IF n >= 1 /\ n <= Len(s.drawingHandles[1])
            THEN [s EXCEPT !.drawingHandles[1][n] =
                     [in |-> <<Pt(pt.x + (pt.x - pos.x), pt.y + (pt.y - pos.y))>>,
                      out |-> <<pos>>]]
            ELSE s
    ELSE s

\* an undo step that takes the last point and leaves its edge behind
undoPoint_KeepEdge(s) ==
    LET Pop(seq) == IF Len(seq) > 0 THEN SubSeq(seq, 1, Len(seq) - 1) ELSE seq
        pts == Pop(s.drawingPoints[1])
    IN IF pts = <<>> THEN NoDrawing(s)
       ELSE [s EXCEPT !.drawingPoints = <<pts>>,
                      !.drawingHandles = IF @ = <<>> THEN @ ELSE <<Pop(@[1])>>]

\* the undo step of the context menu and of Backspace: the last point goes,
\* with the last edge and the last handle entry when there is one
undoPoint(s) ==
    LET Pop(seq) == IF Len(seq) > 0 THEN SubSeq(seq, 1, Len(seq) - 1) ELSE seq
        pts == Pop(s.drawingPoints[1])
    IN IF pts = <<>> THEN NoDrawing(s)
       ELSE [s EXCEPT !.drawingPoints = <<pts>>,
                      !.drawingEdges = <<Pop(s.drawingEdges[1])>>,
                      !.drawingHandles = IF @ = <<>> THEN @ ELSE <<Pop(@[1])>>]

\* ------------------------------------------------------------------------
\* mousedown (board.js)
\* ------------------------------------------------------------------------

\* the rotation handle sits this far above the bounding box
RotateHandleOffset == Px(25)

NoHit == [id |-> NullId, index |-> NullIndex]

\* the first selected object, in selection order, that hitTestPoint matches
PointHit(s, pos) ==
    LET ids == s.selectedObjectIds
        ks == {k \in 1..Len(ids) :
                 IF HasObject(s, ids[k])
                 THEN hitTestPoint(pos, FindObject(s, ids[k])) # NullIndex
                 ELSE FALSE}
    IN IF ks = {} THEN NoHit
       ELSE [id |-> ids[MinOf(ks)],
             index |-> hitTestPoint(pos, FindObject(s, ids[MinOf(ks)]))]

\* the first selected object, in selection order, that hitTestEdge matches
EdgeHit(s, pos) ==
    LET ids == s.selectedObjectIds
        ks == {k \in 1..Len(ids) :
                 IF HasObject(s, ids[k])
                 THEN hitTestEdge(pos, FindObject(s, ids[k])) # NullIndex
                 ELSE FALSE}
    IN IF ks = {} THEN NoHit
       ELSE [id |-> ids[MinOf(ks)],
             index |-> hitTestEdge(pos, FindObject(s, ids[MinOf(ks)]))]

\* resize entry: a handle of the primary object's box under the select tool
ResizeHit(s, pos) ==
    IF HasObject(s, s.selectedObjectId) /\ s.tool = "select"
    THEN hitTestHandle(pos, getTransformedBoundingBox(FindObject(s, s.selectedObjectId)))
    ELSE "null"

StartResize(s, handle) ==
    LET selObj == FindObject(s, s.selectedObjectId)
    IN SnapshotObject([s EXCEPT !.interaction = "resize",
                                !.resizeHandle = handle,
                                !.initialBbox = <<getTransformedBoundingBox(selObj)>>],
                      selObj)

\* rotate entry: the rotation handle of the primary object under the rotate tool
RotateHit(s, pos) ==
    IF HasObject(s, s.selectedObjectId) /\ s.tool = "rotate"
    THEN LET bbox == getTransformedBoundingBox(FindObject(s, s.selectedObjectId))
         IN Near(pos, Pt(bbox.x + DivR(bbox.width, 2), bbox.y - RotateHandleOffset),
                 HitRadius)
    ELSE FALSE

StartRotate(s) ==
    LET selObj == FindObject(s, s.selectedObjectId)
        bbox == getTransformedBoundingBox(selObj)
    IN [SnapshotObject([s EXCEPT !.interaction = "rotate"], selObj)
           EXCEPT !.rotationCenter = <<Pt(bbox.x + DivR(bbox.width, 2),
                                          bbox.y + DivR(bbox.height, 2))>>]

StartPoint(s, hit, isCtrlClick, isShiftClick) ==
    LET sel == IF isCtrlClick
               THEN togglePointSelection(s, hit.id, hit.index)
               ELSE IF isShiftClick /\ s.selectedPointIndex # NullIndex
                                    /\ s.selectedObjectId = hit.id
               THEN selectPointRange(s, hit.id, s.selectedPointIndex, hit.index)
               ELSE selectPoint(s, hit.id, hit.index, isShiftClick)
    IN SnapshotSelected([sel EXCEPT !.interaction = "point"])

StartEdge(s, hit, isCtrlClick, isShiftClick) ==
    LET obj == FindObject(s, hit.id)
        edge == At(obj.edges, hit.index)
        sel == IF isCtrlClick
               THEN toggleEdgeSelection(s, hit.id, hit.index)
               ELSE IF isShiftClick /\ s.selectedEdgeIndex # NullIndex
                                    /\ s.selectedObjectId = hit.id
               THEN selectEdgeRange(s, hit.id, s.selectedEdgeIndex, hit.index)
               ELSE selectEdge(s, hit.id, hit.index, isShiftClick)
    IN IF edge.type = "arc"
       THEN [sel EXCEPT !.interaction = "adjust-arc",
                        !.initialEdges = SnapSet(sel.initialEdges, obj.id, obj.edges)]
       ELSE SnapshotSelected([sel EXCEPT !.interaction = "edge"])

StartMove(s, hitId, isCtrlClick, isShiftClick) ==
    LET sel == IF isCtrlClick THEN toggleObjectSelection(s, hitId)
               ELSE IF isShiftClick THEN selectObject(s, hitId, TRUE)
               ELSE selectObject(s, hitId, FALSE)
    IN SnapshotSelected([sel EXCEPT !.interaction = "move"])

\* nothing was hit: marquee, shape drawing, or a plain deselect
StartMarquee(s, pos, isCtrlClick, isShiftClick) ==
    IF s.tool \in {"select", "rotate"}
    THEN LET box == [s EXCEPT !.isSelecting = TRUE,
                              !.selectionBox = <<[x |-> pos.x, y |-> pos.y,
                                                  width |-> 0, height |-> 0]>>]
         IN IF ~isCtrlClick /\ ~isShiftClick THEN clearSelections(box) ELSE box
    ELSE IF s.tool \in {"rectangle", "circle", "polygon"}
    THEN clearSelections([s EXCEPT !.isDrawing = TRUE])
    ELSE clearSelections(s)

\* a listener that tests the points of the selected objects before the
\* handles of the primary object
Target_PointFirst(s, pos) ==
    IF PointHit(s, pos) # NoHit THEN "point"
    ELSE IF ResizeHit(s, pos) # "null" THEN "resize"
    ELSE IF RotateHit(s, pos) THEN "rotate"
    ELSE IF EdgeHit(s, pos) # NoHit
    THEN (IF At(FindObject(s, EdgeHit(s, pos).id).edges, EdgeHit(s, pos).index).type = "arc"
          THEN "arc" ELSE "edge")
    ELSE IF hitTestObject(s, pos) # NullId THEN "object"
    ELSE "nothing"

\* what the pointer struck, in the order the mousedown listener tests it
Target(s, pos) ==
    IF ResizeHit(s, pos) # "null" THEN "resize"
    ELSE IF RotateHit(s, pos) THEN "rotate"
    ELSE IF PointHit(s, pos) # NoHit THEN "point"
    ELSE IF EdgeHit(s, pos) # NoHit
    THEN (IF At(FindObject(s, EdgeHit(s, pos).id).edges, EdgeHit(s, pos).index).type = "arc"
          THEN "arc" ELSE "edge")
    ELSE IF hitTestObject(s, pos) # NullId THEN "object"
    ELSE "nothing"

\* the mousedown listener, primary button; no object of the scene has
\* bezier handles to strike
mousedown(s0, pos, isCtrlClick, isShiftClick) ==
    LET s == [s0 EXCEPT !.dragStart = pos,
                        !.initialPoints = <<>>,
                        !.initialEdges = <<>>]
        target == Target(s, pos)
    IN CASE s.tool \in DrawingTools -> DrawPoint(s, pos)
         [] target = "resize" -> StartResize(s, ResizeHit(s, pos))
         [] target = "rotate" -> StartRotate(s)
         [] target = "point" ->
                StartPoint(s, PointHit(s, pos), isCtrlClick, isShiftClick)
         [] target \in {"edge", "arc"} ->
                StartEdge(s, EdgeHit(s, pos), isCtrlClick, isShiftClick)
         [] target = "object" ->
                StartMove(s, hitTestObject(s, pos), isCtrlClick, isShiftClick)
         [] OTHER -> StartMarquee(s, pos, isCtrlClick, isShiftClick)

\* ------------------------------------------------------------------------
\* mousemove (board.js)
\* ------------------------------------------------------------------------

\* the tenth of a pixel added to half the chord in the arc radius rescale
RadiusSlack == 1

\* renderPreview builds the previewed shape, which draws a fresh id
renderPreview(s) ==
    IF s.isDrawing /\ s.tool \in {"rectangle", "circle", "polygon"}
    THEN [s EXCEPT !.objectCounter = s.objectCounter + 1]
    ELSE s

\* the marquee follows the pointer
UpdateSelectionBox(s, pos) ==
    [s EXCEPT !.selectionBox = <<[s.selectionBox[1] EXCEPT
                                    !.width = pos.x - s.dragStart.x,
                                    !.height = pos.y - s.dragStart.y]>>]

\* state.objects with the object of this id replaced
SetObject(s, obj) ==
    [s EXCEPT !.objects = [k \in 1..Len(s.objects) |->
                              IF s.objects[k].id = obj.id THEN obj ELSE s.objects[k]]]

Translate(points, dx, dy) ==
    [i \in 1..Len(points) |-> Pt(points[i].x + dx, points[i].y + dy)]

\* interaction 'move': every selected object with a snapshot follows the pointer
MoveSelected(s, dx, dy) ==
    [s EXCEPT !.objects = [k \in 1..Len(s.objects) |->
        LET o == s.objects[k]
        IN IF Includes(s.selectedObjectIds, o.id) /\ SnapHas(s.initialPoints, o.id)
           THEN [o EXCEPT !.points = Translate(SnapGet(s.initialPoints, o.id), dx, dy)]
           ELSE o]]

\* Math.max(chordDist / 2 + 0.1, oldR * (chordDist / oldChordDist))
ScaledRadius(oldR, chordDist, oldChordDist) ==
    Max2(DivR(chordDist, 2) + RadiusSlack, DivR(oldR * chordDist, oldChordDist))

\* the radius the point branch gives arc edge number k of selObj
PointEditRadius(s, selObj, k, objectId) ==
    LET edge == selObj.edges[k]
        chordDist == dist(At(selObj.points, edge.points[1]),
                          At(selObj.points, edge.points[2]))
        oldPts == SnapGet(s.initialPoints, objectId)
        oldChordDist == dist(At(oldPts, edge.points[1]), At(oldPts, edge.points[2]))
        oldR == IF SnapHas(s.initialEdges, objectId)
                THEN SnapGet(s.initialEdges, objectId)[k].rx
                ELSE edge.rx
    IN IF oldChordDist > 0 /\ chordDist > 0
       THEN IF oldR # 0 /\ 2 * oldR > oldChordDist
            THEN ScaledRadius(oldR, chordDist, oldChordDist)
            ELSE Max2(DivR(chordDist, 2),
                      IF edge.rx # 0 THEN edge.rx ELSE DivR(chordDist, 2))
       ELSE edge.rx

\* one selected point: the point follows the pointer, then every arc edge
\* at that point is rescaled
PointEditOne(s, key, dx, dy) ==
    LET selObj == FindObject(s, key.objectId)
        old == At(SnapGet(s.initialPoints, key.objectId), key.pointIndex)
        moved == [selObj EXCEPT !.points[key.pointIndex + 1] =
                                    Pt(old.x + dx, old.y + dy)]
        scaled == [moved EXCEPT !.edges = [k \in 1..Len(moved.edges) |->
            LET edge == moved.edges[k]
            IN IF edge.type = "arc" /\ Includes(edge.points, key.pointIndex)
               THEN [edge EXCEPT !.rx = PointEditRadius(s, moved, k, key.objectId),
                                 !.ry = PointEditRadius(s, moved, k, key.objectId)]
               ELSE edge]]
    IN SetObject(s, scaled)

\* state.selectedPointIndices.forEach(...); an index outside the object's
\* points ends the handler with a TypeError
RECURSIVE PointEditLoop(_, _, _, _)
PointEditLoop(s, keys, dx, dy) ==
    IF keys = <<>> THEN s
    ELSE LET key == Head(keys)
         IN IF HasObject(s, key.objectId) /\ SnapHas(s.initialPoints, key.objectId)
            THEN IF InRange(FindObject(s, key.objectId).points, key.pointIndex)
                 THEN PointEditLoop(PointEditOne(s, key, dx, dy), Tail(keys), dx, dy)
                 ELSE s
            ELSE PointEditLoop(s, Tail(keys), dx, dy)

\* one selected edge: both endpoints follow the pointer, an arc is rescaled
EdgeEditOne(s, key, dx, dy) ==
    LET selObj == FindObject(s, key.objectId)
        oldPts == SnapGet(s.initialPoints, key.objectId)
        edge == At(selObj.edges, key.edgeIndex)
        moved == [selObj EXCEPT !.points = [i \in 1..Len(selObj.points) |->
                     IF Includes(edge.points, i - 1)
                     THEN Pt(oldPts[i].x + dx, oldPts[i].y + dy)
                     ELSE selObj.points[i]]]
        chordDist == dist(At(moved.points, edge.points[1]),
                          At(moved.points, edge.points[2]))
        oldChordDist == dist(At(oldPts, edge.points[1]), At(oldPts, edge.points[2]))
        oldR == At(SnapGet(s.initialEdges, key.objectId), key.edgeIndex).rx
    IN IF edge.type = "arc" /\ SnapHas(s.initialEdges, key.objectId)
       THEN IF oldChordDist > 0 /\ chordDist > 0 /\ oldR # 0
            THEN SetObject(s, [moved EXCEPT
                     !.edges[key.edgeIndex + 1].rx =
                         ScaledRadius(oldR, chordDist, oldChordDist),
                     !.edges[key.edgeIndex + 1].ry =
                         ScaledRadius(oldR, chordDist, oldChordDist)])
            ELSE SetObject(s, moved)
       ELSE SetObject(s, moved)

RECURSIVE EdgeEditLoop(_, _, _, _)
EdgeEditLoop(s, keys, dx, dy) ==
    IF keys = <<>> THEN s
    ELSE LET key == Head(keys)
         IN IF HasObject(s, key.objectId) /\ SnapHas(s.initialPoints, key.objectId)
            THEN IF InRange(FindObject(s, key.objectId).edges, key.edgeIndex)
                 THEN EdgeEditLoop(EdgeEditOne(s, key, dx, dy), Tail(keys), dx, dy)
                 ELSE s
            ELSE EdgeEditLoop(s, Tail(keys), dx, dy)

\* interaction 'adjust-arc': the edge state.selectedEdgeIndex of the primary
\* object takes the curvature the pointer asks for
AdjustArc(s, obj, pos) ==
    LET edge == At(obj.edges, s.selectedEdgeIndex)
        p1 == At(obj.points, edge.points[1])
        p2 == At(obj.points, edge.points[2])
        cross == (p2.x - p1.x) * (pos.y - p1.y) - (p2.y - p1.y) * (pos.x - p1.x)
        expectedSweep == IF cross > 0 THEN 0 ELSE 1
        d == dist(p1, p2)
        h == Max2(Px(1), DivR(Abs(cross), d))
        R == DivR(d * d, 8 * h) + DivR(h, 2)
        k == s.selectedEdgeIndex + 1
    IN IF d > 0
       THEN SetObject(s, [obj EXCEPT !.edges[k].sweep = expectedSweep,
                                     !.edges[k].rx = R,
                                     !.edges[k].ry = R,
                                     !.edges[k].largeArc = 0])
       ELSE SetObject(s, [obj EXCEPT !.edges[k].sweep = expectedSweep])

\* variant of ResizedBox that treats every handle as the 'se' corner
ResizedBox_Corner(oldB, handle, dx, dy) ==
    [oldB EXCEPT !.width = oldB.width + dx, !.height = oldB.height + dy]

\* the box the dragged handle asks for
ResizedBox(oldB, handle, dx, dy) ==
    CASE handle = "e"  -> [oldB EXCEPT !.width = oldB.width + dx]
      [] handle = "w"  -> [oldB EXCEPT !.x = oldB.x + dx, !.width = oldB.width - dx]
      [] handle = "s"  -> [oldB EXCEPT !.height = oldB.height + dy]
      [] handle = "n"  -> [oldB EXCEPT !.y = oldB.y + dy, !.height = oldB.height - dy]
      [] handle = "se" -> [oldB EXCEPT !.width = oldB.width + dx,
                                       !.height = oldB.height + dy]
      [] handle = "nw" -> [oldB EXCEPT !.x = oldB.x + dx, !.width = oldB.width - dx,
                                       !.y = oldB.y + dy, !.height = oldB.height - dy]
      [] handle = "ne" -> [oldB EXCEPT !.width = oldB.width + dx,
                                       !.y = oldB.y + dy, !.height = oldB.height - dy]
      [] handle = "sw" -> [oldB EXCEPT !.x = oldB.x + dx, !.width = oldB.width - dx,
                                       !.height = oldB.height + dy]
      [] OTHER -> oldB

\* interaction 'resize': the primary object is rescaled from its snapshot;
\* without a snapshot of it the handler ends with a TypeError
Resize(s, obj, dx, dy) ==
    IF s.initialBbox = <<>> THEN s
    ELSE IF ~SnapHas(s.initialPoints, obj.id) THEN s
    ELSE IF ~SnapHas(s.initialEdges, obj.id) THEN s
    ELSE
    LET oldB == s.initialBbox[1]
        newB == ResizedBox(oldB, s.resizeHandle, dx, dy)
        oldPts == SnapGet(s.initialPoints, obj.id)
        oldEdges == SnapGet(s.initialEdges, obj.id)
        flipped == (newB.width < 0) # (newB.height < 0)
    IN SetObject(s, [obj EXCEPT
        !.points = [i \in 1..Len(obj.points) |->
            Pt(newB.x + DivR((oldPts[i].x - oldB.x) * newB.width, oldB.width),
               newB.y + DivR((oldPts[i].y - oldB.y) * newB.height, oldB.height))],
        !.edges = [i \in 1..Len(obj.edges) |->
            IF obj.edges[i].type = "arc"
            THEN [obj.edges[i] EXCEPT
                    !.rx = Abs(DivR(oldEdges[i].rx * newB.width, oldB.width)),
                    !.ry = Abs(DivR(oldEdges[i].ry * newB.height, oldB.height)),
                    !.sweep = IF flipped
                              THEN (IF oldEdges[i].sweep = 1 THEN 0 ELSE 1)
                              ELSE oldEdges[i].sweep]
            ELSE obj.edges[i]]])

\* cos and sin of atan2(pos - center) - atan2(dragStart - center), as the
\* fractions c / den and sn / den (atan2(0, 0) is 0; equal positions give
\* equal angles and the rotation by exactly 0)
Rotation(center, dragStart, pos) ==
    LET ax == dragStart.x - center.x
        ay == dragStart.y - center.y
        bx == pos.x - center.x
        by == pos.y - center.y
        la == dist(center, dragStart)
        lb == dist(center, pos)
    IN IF pos = dragStart THEN [c |-> 1, sn |-> 0, den |-> 1]
       ELSE IF la = 0 /\ lb = 0 THEN [c |-> 1, sn |-> 0, den |-> 1]
       ELSE IF lb = 0 THEN [c |-> ax, sn |-> 0 - ay, den |-> la]
       ELSE IF la = 0 THEN [c |-> bx, sn |-> by, den |-> lb]
       ELSE [c |-> ax * bx + ay * by, sn |-> ax * by - ay * bx, den |-> la * lb]

\* a rotation whose sine term in y has the wrong sign, which is a turn
\* followed by a reflection
Rotate_Mirrored(s, obj, pos) ==
    IF s.rotationCenter = <<>> THEN s
    ELSE IF ~SnapHas(s.initialPoints, obj.id) THEN s
    ELSE
    LET center == s.rotationCenter[1]
        rot == Rotation(center, s.dragStart, pos)
        oldPts == SnapGet(s.initialPoints, obj.id)
    IN SetObject(s, [obj EXCEPT !.points = [i \in 1..Len(obj.points) |->
        LET ox == oldPts[i].x - center.x
            oy == oldPts[i].y - center.y
        IN Pt(center.x + DivR(ox * rot.c - oy * rot.sn, rot.den),
              center.y + DivR(oy * rot.c - ox * rot.sn, rot.den))]])

\* interaction 'rotate': the primary object is turned about the rotation
\* center from its snapshot; without a snapshot of it the handler ends with
\* a TypeError
Rotate(s, obj, pos) ==
    IF s.rotationCenter = <<>> THEN s
    ELSE IF ~SnapHas(s.initialPoints, obj.id) THEN s
    ELSE
    LET center == s.rotationCenter[1]
        rot == Rotation(center, s.dragStart, pos)
        oldPts == SnapGet(s.initialPoints, obj.id)
    IN SetObject(s, [obj EXCEPT !.points = [i \in 1..Len(obj.points) |->
        LET ox == oldPts[i].x - center.x
            oy == oldPts[i].y - center.y
        IN Pt(center.x + DivR(ox * rot.c - oy * rot.sn, rot.den),
              center.y + DivR(ox * rot.sn + oy * rot.c, rot.den))]])

\* the transform of the active interaction
Transform(s, obj, pos) ==
    LET dx == pos.x - s.dragStart.x
        dy == pos.y - s.dragStart.y
    IN CASE s.interaction = "move" -> MoveSelected(s, dx, dy)
         [] s.interaction = "point" -> PointEditLoop(s, s.selectedPointIndices, dx, dy)
         [] s.interaction = "edge" -> EdgeEditLoop(s, s.selectedEdgeIndices, dx, dy)
         [] s.interaction = "adjust-arc" ->
                IF InRange(obj.edges, s.selectedEdgeIndex)
                THEN AdjustArc(s, obj, pos) ELSE s
         [] s.interaction = "resize" -> Resize(s, obj, dx, dy)
         [] s.interaction = "rotate" -> Rotate(s, obj, pos)
         [] OTHER -> s

\* the mousemove listener
mousemove(s0, pos) ==
    LET s == [s0 EXCEPT !.currentMouse = pos]
    IN IF s.tool \in DrawingTools /\ s.drawingPoints # <<>> THEN DragOutHandle(s, pos)
       ELSE IF s.isDrawing THEN renderPreview(s)
       ELSE IF s.isSelecting /\ s.selectionBox # <<>> THEN UpdateSelectionBox(s, pos)
       ELSE IF ~HasObject(s, s.selectedObjectId) THEN s
       ELSE IF s.interaction = NoInteraction THEN s
       ELSE Transform(s, FindObject(s, s.selectedObjectId), pos)

\* ------------------------------------------------------------------------
\* mouseup (board.js)
\* ------------------------------------------------------------------------

\* a marquee or a shape drag counts only beyond this many pixels
DragThreshold == Px(5)

\* the marquee with non-negative width and height
NormalizedBox(box) ==
    [x |-> IF box.width < 0 THEN box.x + box.width ELSE box.x,
     y |-> IF box.height < 0 THEN box.y + box.height ELSE box.y,
     width |-> Abs(box.width),
     height |-> Abs(box.height)]

FinishMarquee(s, additive) ==
    LET box == NormalizedBox(s.selectionBox[1])
        sel == IF box.width > DragThreshold THEN selectInBox(s, box, additive)
               ELSE IF box.height > DragThreshold THEN selectInBox(s, box, additive)
               ELSE s
    IN [sel EXCEPT !.isSelecting = FALSE, !.selectionBox = <<>>]

\* state.objects.push(obj); selectObject(obj.id, false)
AddObject(s, obj) ==
    selectObject([s EXCEPT !.objects = Append(s.objects, obj),
                           !.objectCounter = obj.id],
                 obj.id, FALSE)

\* the shape dragged out with the rectangle or the circle tool
FinishShape(s, pos) ==
    LET dx == pos.x - s.dragStart.x
        dy == pos.y - s.dragStart.y
        id == s.objectCounter + 1
        far == IF Abs(dx) > DragThreshold THEN TRUE ELSE Abs(dy) > DragThreshold
    IN IF ~far THEN s
       ELSE IF s.tool = "rectangle"
       THEN AddObject(s, createRectangle(id, Min2(pos.x, s.dragStart.x),
                                         Min2(pos.y, s.dragStart.y), Abs(dx), Abs(dy)))
       ELSE IF s.tool = "circle"
       THEN AddObject(s, createCircle(id, s.dragStart.x, s.dragStart.y,
                                      Sqrt(dx * dx + dy * dy)))
       ELSE s

\* the mouseup listener; additive is ctrlKey || metaKey || shiftKey
mouseup(s, pos, additive) ==
    IF s.isSelecting /\ s.selectionBox # <<>> THEN FinishMarquee(s, additive)
    ELSE [(IF s.isDrawing THEN FinishShape(s, pos) ELSE s) EXCEPT
             !.isDrawing = FALSE,
             !.isDraggingHandle = FALSE,
             !.interaction = NoInteraction,
             !.initialPoints = <<>>,
             !.initialEdges = <<>>,
             !.initialHandles = <<>>]

\* ------------------------------------------------------------------------
\* Tool switch and keyboard shortcuts (toolbar.js, tool-select.js)
\* ------------------------------------------------------------------------

\* a tool that is not a drawing tool abandons the path being drawn
setTool(s, toolName) ==
    [(IF s.drawingPoints # <<>> /\ toolName \notin DrawingTools
      THEN NoDrawing(s) ELSE s) EXCEPT !.tool = toolName]

\* an Escape that also closes the session
keyEscape_Abort(s) ==
    IF s.tool \in {"select", "rotate"}
    THEN [clearSelections(s) EXCEPT !.interaction = NoInteraction]
    ELSE s

\* Escape: clearSelections under the select and rotate tools
keyEscape(s) == IF s.tool \in {"select", "rotate"} THEN clearSelections(s) ELSE s

\* Ctrl+A: selectAllObjects under the select and rotate tools
keyCtrlA(s) == IF s.tool \in {"select", "rotate"} THEN selectAllObjects(s) ELSE s

\* Shift+A: selectAllPointsAndEdges under the select and rotate tools
keyShiftA(s) == IF s.tool \in {"select", "rotate"} THEN selectAllPointsAndEdges(s) ELSE s

\* a Delete that empties the three arrays and keeps the primary object
keyDelete_KeepPrimary(s) ==
    IF s.drawingPoints # <<>> THEN undoPoint(s)
    ELSE IF Len(s.selectedObjectIds) > 0
    THEN [s EXCEPT !.objects = SelectSeq(s.objects,
                                  LAMBDA o : ~Includes(s.selectedObjectIds, o.id)),
                   !.selectedObjectIds = <<>>,
                   !.selectedPointIndices = <<>>,
                   !.selectedEdgeIndices = <<>>]
    ELSE s

\* Delete / Backspace: the last point of the path being drawn is taken
\* back, or else the selected objects leave the scene
keyDelete(s) ==
    IF s.drawingPoints # <<>> THEN undoPoint(s)
    ELSE IF Len(s.selectedObjectIds) > 0
    THEN clearSelections([s EXCEPT !.objects =
             SelectSeq(s.objects, LAMBDA o : ~Includes(s.selectedObjectIds, o.id))])
    ELSE s

\* ------------------------------------------------------------------------
\* The canvas under pointer events
\* ------------------------------------------------------------------------

\* A circle of radius 20 about (40, 50) and, to its right, an open vertical
\* line from (80, 30) to (80, 70)
PointerScene ==
    <<createCircle(1, Px(40), Px(50), Px(20)),
      createPath(2, <<Pt(Px(80), Px(30)), Pt(Px(80), Px(70))>>, FALSE)>>

\* Pointer positions: empty canvas above the circle; the circle's top point
\* (its 'n' resize handle); its rotation handle; its center, on the chord
\* of both arcs; a spot inside its box away from chord, points and
\* handles; the middle of the line
Positions ==
    {Pt(Px(40), Px(20)), Pt(Px(40), Px(30)), Pt(Px(40), Px(5)),
     Pt(Px(40), Px(50)), Pt(Px(55), Px(40)), Pt(Px(80), Px(50))}

\* the modifier keys held with a mousedown
Modifiers == {"none", "ctrl", "shift"}

\* the longest sequence of pointer events explored
MaxEvents == 4

\* the editor after the circle and the line were drawn, under the select or
\* the rotate tool, with nothing selected or the circle selected by a click
InitPointer ==
    /\ \E tool \in {"select", "rotate"}, selected \in BOOLEAN :
          state = IF selected
                  THEN selectObject(NewState(PointerScene, 2, tool), 1, FALSE)
                  ELSE NewState(PointerScene, 2, tool)
    /\ lastEvent = "init"
    /\ gesture = "none"
    /\ calls = 0

MouseDown ==
    \E pos \in Positions, mod \in Modifiers :
        /\ state' = mousedown(state, pos, mod = "ctrl", mod = "shift")
        /\ gesture' = Target(state, pos)
        /\ lastEvent' = "mousedown"

MouseMove ==
    /\ \E pos \in Positions : state' = mousemove(state, pos)
    /\ lastEvent' = "mousemove"
    /\ UNCHANGED gesture

MouseUp ==
    /\ \E pos \in Positions, additive \in BOOLEAN :
          state' = mouseup(state, pos, additive)
    /\ lastEvent' = "mouseup"
    /\ gesture' = "none"

\* one more event, while the bound allows
PointerStep == /\ calls < MaxEvents
               /\ calls' = calls + 1

NextPointer ==
    \/ PointerStep /\ MouseDown
    \/ PointerStep /\ MouseMove
    \/ PointerStep /\ MouseUp

SpecPointer == InitPointer /\ [][NextPointer]_vars

\* ------------------------------------------------------------------------
\* The canvas under pointer events, tool switches and keyboard shortcuts
\* ------------------------------------------------------------------------

\* the tools the 'v', 'o', 'm' and 'c' keys switch to
Tools == {"select", "rotate", "rectangle", "circle"}

\* the longest sequence of pointer and keyboard events explored
MaxKeyEvents == 3

KeyTool ==
    /\ \E toolName \in Tools : state' = setTool(state, toolName)
    /\ lastEvent' = "setTool"
    /\ UNCHANGED gesture

KeyEscape ==
    /\ state' = keyEscape(state)
    /\ lastEvent' = "Escape"
    /\ UNCHANGED gesture

KeyCtrlA ==
    /\ state' = keyCtrlA(state)
    /\ lastEvent' = "Ctrl+A"
    /\ UNCHANGED gesture

KeyShiftA ==
    /\ state' = keyShiftA(state)
    /\ lastEvent' = "Shift+A"
    /\ UNCHANGED gesture

KeyDelete ==
    /\ state' = keyDelete(state)
    /\ lastEvent' = "Delete"
    /\ UNCHANGED gesture

KeyStep == /\ calls < MaxKeyEvents
           /\ calls' = calls + 1

NextKeys ==
    \/ KeyStep /\ MouseDown
    \/ KeyStep /\ MouseMove
    \/ KeyStep /\ MouseUp
    \/ KeyStep /\ KeyTool
    \/ KeyStep /\ KeyEscape
    \/ KeyStep /\ KeyCtrlA
    \/ KeyStep /\ KeyShiftA
    \/ KeyStep /\ KeyDelete

SpecKeys == InitPointer /\ [][NextKeys]_vars

\* ------------------------------------------------------------------------
\* Gesture claims
\* ------------------------------------------------------------------------

\* the geometry of the scene: every object's points, handles and edges
Geometry(s) == s.objects

\* no point, edge or handle snapshot is held
NoSnapshot(s) ==
    /\ s.initialPoints = <<>>
    /\ s.initialEdges = <<>>
    /\ s.initialHandles = <<>>

\* the state with every snapshotted object put back to its snapshot, as it
\* was when the gesture started
AtGestureStart(s) ==
    [s EXCEPT !.objects = [k \in 1..Len(s.objects) |->
        LET o == s.objects[k]
        IN [o EXCEPT !.points = IF SnapHas(s.initialPoints, o.id)
                                THEN SnapGet(s.initialPoints, o.id) ELSE o.points,
                     !.edges = IF SnapHas(s.initialEdges, o.id)
                               THEN SnapGet(s.initialEdges, o.id) ELSE o.edges]]]

\* C6: in a move gesture (the last mousedown struck an object body), after a
\* mousemove every point of every selected object equals its snapshot value
\* plus (pointer position - mousedown position), whatever samples came
\* before, and every other object is unchanged.
C6_MoveIsSnapshotPlusDelta ==
    [][(lastEvent' = "mousemove" /\ gesture = "object")
          => \A k \in 1..Len(state.objects) :
                LET o == state.objects[k]
                IN IF Includes(state.selectedObjectIds, o.id)
                   THEN /\ SnapHas(state.initialPoints, o.id)
                        /\ state'.objects[k].points =
                              Translate(SnapGet(state.initialPoints, o.id),
                                        state'.currentMouse.x - state.dragStart.x,
                                        state'.currentMouse.y - state.dragStart.y)
                   ELSE state'.objects[k] = o]_vars

\* C7: in a move, point-edit, edge-edit, resize or rotate gesture the
\* geometry after a mousemove is the geometry the same mousemove gives when
\* delivered first, on the gesture-start snapshot: it does not depend on the
\* samples delivered before.
C7_SnapshotPurity ==
    [][(lastEvent' = "mousemove"
           /\ gesture \in {"object", "point", "edge", "resize", "rotate"})
          => Geometry(state') =
                Geometry(mousemove(AtGestureStart(state), state'.currentMouse))]_vars

\* C8: when the mouseup of a transform gesture returns, state.interaction is
\* null and no snapshot is held; and a mousemove delivered after a mouseup
\* and before the next mousedown changes no geometry.
C8_MouseUpClosesSession ==
    [][/\ (lastEvent' = "mouseup"
             /\ gesture \in {"object", "point", "edge", "arc", "resize", "rotate"})
          => (state'.interaction = NoInteraction /\ NoSnapshot(state'))
       /\ (lastEvent' = "mousemove" /\ gesture = "none")
          => Geometry(state') = Geometry(state)]_vars

\* C9: a mousedown that starts an interaction or a marquee finds no
\* interaction and no marquee active; a mousedown delivered while the
\* previous one has had no mouseup leaves the active session and its
\* snapshots as they are.
C9_SingleSession ==
    [][lastEvent' = "mousedown"
          => /\ (state'.interaction # NoInteraction \/ state'.isSelecting)
                => (state.interaction = NoInteraction /\ ~state.isSelecting)
             /\ gesture # "none"
                => /\ state'.interaction = state.interaction
                   /\ state'.initialPoints = state.initialPoints
                   /\ state'.initialEdges = state.initialEdges]_vars

\* C10: a tool switch between the mousedown and the mouseup of a gesture
\* leaves state.interaction null and no snapshot held, and the mousemove
\* that follows the switch changes no geometry.
C10_SetToolEndsSession ==
    [][/\ (lastEvent' = "setTool" /\ gesture # "none")
          => (state'.interaction = NoInteraction /\ NoSnapshot(state'))
       /\ (lastEvent = "setTool" /\ lastEvent' = "mousemove")
          => Geometry(state') = Geometry(state)]_vars
\* C11: when the last mousemove of a transform gesture and its mouseup are
\* at the mousedown position, every point and every edge parameter of every
\* object is, after the mouseup, what it was at the mousedown.
C11_ZeroMovementIsNoOp ==
    [][(/\ lastEvent' = "mouseup"
        /\ lastEvent = "mousemove"
        /\ gesture \in {"object", "point", "edge", "arc", "resize", "rotate"}
        /\ state.currentMouse = state.dragStart
        /\ \E additive \in BOOLEAN :
              state' = mouseup(state, state.dragStart, additive))
          => Geometry(state') = Geometry(AtGestureStart(state))]_vars

\* edge e of object id has point p as one of its endpoints
EdgeHasPoint(s, id, e, p) == EdgeEnd(s, id, e, 1) = p \/ EdgeEnd(s, id, e, 2) = p

\* what togglePointSelection(id, p) on a selected point promises of the state
\* t it leaves from s
DeselectCascadePost(s, t, id, p) ==
    /\ ~PointSelected(t, id, p)
    /\ \A e \in EdgeIndexes(s, id) :
           EdgeHasPoint(s, id, e, p) => ~EdgeSelected(t, id, e)
    /\ \A k \in 1..Len(s.selectedPointIndices) :
           s.selectedPointIndices[k] # PointKey(id, p)
               => Includes(t.selectedPointIndices, s.selectedPointIndices[k])
    /\ \A k \in 1..Len(s.selectedEdgeIndices) :
           LET key == s.selectedEdgeIndices[k]
           IN (key.objectId # id \/ ~EdgeHasPoint(s, id, key.edgeIndex, p))
                  => Includes(t.selectedEdgeIndices, key)

\* C12 (deselect cascade): togglePointSelection(id, p) on a selected point p
\* leaves (id, p) and every edge of the object that has p as an endpoint
\* unselected, and keeps every other selected point and every selected edge
\* that does not reference p.
C12_DeselectCascade ==
    [][\A id \in ObjectIds(state) : \A p \in PointIndexes(state, id) :
          (/\ PointSelected(state, id, p)
           /\ state' = togglePointSelection(state, id, p))
              => DeselectCascadePost(state, state', id, p)]_vars

\* C12 witness: point 0 of the fully selected closed path was toggled off
\* while a point of the open path stays selected: its two edges are gone,
\* the opposite edge and the two other points are kept.
C12_Witness ==
    /\ calls >= 3
    /\ ~PointSelected(state, 1, 0)
    /\ PointSelected(state, 1, 1) /\ PointSelected(state, 1, 2)
    /\ EdgeSelected(state, 1, 1)
    /\ ~EdgeSelected(state, 1, 0) /\ ~EdgeSelected(state, 1, 2)
    /\ Includes(state.selectedObjectIds, 1)
    /\ PointSelected(state, 2, 0)
    /\ state.selectedPointIndex = NullIndex

\* every id selected in s is still selected in t
IdsKept(s, t) ==
    \A k \in 1..Len(s.selectedObjectIds) :
        Includes(t.selectedObjectIds, s.selectedObjectIds[k])

\* t is what toggleObjectSelection or an operation that clears first leaves from s
DemotingStep(s, t) ==
    \/ t = clearSelections(s)
    \/ \E id \in ObjectIds(s) :
           \/ t = toggleObjectSelection(s, id)
           \/ t = selectObject(s, id, FALSE)
           \/ \E i \in PointIndexes(s, id) : t = selectPoint(s, id, i, FALSE)
           \/ \E e \in EdgeIndexes(s, id) : t = selectEdge(s, id, e, FALSE)
    \/ \E box \in SelBoxes : t = selectInBox(s, box, FALSE)

Elements(seq) == {seq[k] : k \in 1..Len(seq)}

\* what selectPointRange(id, a, b) promises of the state t it leaves from s
PointRangePost(s, t, id, a, b) ==
    LET back == selectPointRange(s, id, b, a)
    IN /\ Elements(t.selectedPointIndices) =
              Elements(s.selectedPointIndices)
                  \cup {PointKey(id, i) : i \in Min2(a, b)..Max2(a, b)}
       /\ Elements(back.selectedPointIndices) = Elements(t.selectedPointIndices)
       /\ Elements(back.selectedEdgeIndices) = Elements(t.selectedEdgeIndices)

\* C14 (range selection is order-independent): selectPointRange(id, a, b) on
\* an existing object leaves as selected points the previous ones united with
\* (id, i) for min(a,b) <= i <= max(a,b), and selectPointRange(id, b, a) from
\* the same state gives the same sets of selected points and edges.
C14_RangeOrderIndependent ==
    [][\A id \in ObjectIds(state) :
          \A a \in PointIndexes(state, id), b \in PointIndexes(state, id) :
              state' = selectPointRange(state, id, a, b)
                  => PointRangePost(state, state', id, a, b)]_vars

\* C14 witness: with point 0 of the open path selected, the range from point
\* 2 down to point 1 of the closed path was added.
C14_Witness ==
    /\ state.selectedPointIndices =
           <<PointKey(2, 0), PointKey(1, 1), PointKey(1, 2)>>
    /\ state.selectedObjectId = 1
    /\ state.selectedPointIndex = 1
    /\ EdgeSelected(state, 1, 1)

\* point i of object id lies in the closed rectangle
InRectangle(s, id, i, rect) ==
    LET p == At(FindObject(s, id).points, i)
    IN /\ rect.x <= p.x /\ p.x <= rect.x + rect.width
       /\ rect.y <= p.y /\ p.y <= rect.y + rect.height

\* what selectInBox(rect, false) promises of the state t it leaves
BoxRulePost(t, rect) ==
    /\ \A k \in 1..Len(t.selectedPointIndices) :
           /\ t.selectedPointIndices[k].objectId \in ObjectIds(t)
           /\ t.selectedPointIndices[k].pointIndex
                  \in PointIndexes(t, t.selectedPointIndices[k].objectId)
    /\ \A k \in 1..Len(t.selectedEdgeIndices) :
           /\ t.selectedEdgeIndices[k].objectId \in ObjectIds(t)
           /\ t.selectedEdgeIndices[k].edgeIndex
                  \in EdgeIndexes(t, t.selectedEdgeIndices[k].objectId)
    /\ \A k \in 1..Len(t.selectedObjectIds) :
           t.selectedObjectIds[k] \in ObjectIds(t)
    /\ \A id \in ObjectIds(t) :
           /\ \A i \in PointIndexes(t, id) :
                  PointSelected(t, id, i) <=> InRectangle(t, id, i, rect)
           /\ \A e \in EdgeIndexes(t, id) :
                  EdgeSelected(t, id, e) <=>
                      /\ InRectangle(t, id, EdgeEnd(t, id, e, 1), rect)
                      /\ InRectangle(t, id, EdgeEnd(t, id, e, 2), rect)
           /\ Includes(t.selectedObjectIds, id) <=>
                  \E i \in PointIndexes(t, id) : InRectangle(t, id, i, rect)

\* C15 (box selection rule): after selectInBox(rect, false) a point is
\* selected exactly when it lies in the closed rectangle, an edge exactly
\* when both of its endpoints do, and an object id exactly when the object
\* has at least one point in the rectangle.
C15_BoxSelectionRule ==
    [][\A rect \in SelBoxes :
          state' = selectInBox(state, rect, FALSE)
              => BoxRulePost(state', rect)]_vars

\* C15 witness: a rectangle held the right point of the closed path and the
\* upper point of the open path, one endpoint of each of their edges: both
\* objects and the two points are selected, no edge is.
C15_Witness ==
    /\ state.selectedObjectIds = <<1, 2>>
    /\ state.selectedPointIndices = <<PointKey(1, 1), PointKey(2, 0)>>
    /\ state.selectedEdgeIndices = <<>>
    /\ state.selectedObjectId = 1
    /\ state.selectedPointIndex = NullIndex
    /\ calls >= 1

\* ------------------------------------------------------------------------
\* Pointer events on a circle with a bulged arc
\* ------------------------------------------------------------------------

\* the editor after an arc-curvature gesture on the selected circle: the
\* chord of arc 0 was pressed at the center, dragged to the right and
\* released, which leaves arc 0 with a radius above half its chord
BulgedState ==
    LET start == selectObject(NewState(PointerScene, 2, "select"), 1, FALSE)
        down == mousedown(start, Pt(Px(40), Px(50)), FALSE, FALSE)
        moved == mousemove(down, Pt(Px(55), Px(40)))
    IN mouseup(moved, Pt(Px(55), Px(40)), FALSE)

\* the editor after a point-edit gesture on the selected circle under the
\* rotate tool: point 0 was dragged to (80.1,50), then back to (80,50), and
\* released; the first sample raised the radius of both arcs to 22.4, half
\* of its chord, and the second left it there over a chord of 44.7
StretchedState ==
    LET start == setTool(selectObject(NewState(PointerScene, 2, "select"), 1, FALSE),
                         "rotate")
        down == mousedown(start, Pt(Px(40), Px(30)), FALSE, FALSE)
        far == mousemove(down, Pt(Px(80) + 1, Px(50)))
        back == mousemove(far, Pt(Px(80), Px(50)))
    IN mouseup(back, Pt(Px(80), Px(50)), FALSE)

InitBulged ==
    /\ \E tool \in {"select", "rotate"}, s \in {BulgedState, StretchedState} :
          state = setTool(s, tool)
    /\ lastEvent = "init"
    /\ gesture = "none"
    /\ calls = 0

SpecBulged == InitBulged /\ [][NextPointer]_vars

\* the chord of edge k (counted from 1) of an object over the given points
Chord(points, edges, k) ==
    dist(At(points, edges[k].points[1]), At(points, edges[k].points[2]))

\* arc edge k of object o has an endpoint among the selected points
AtMovedPoint(s, o, k) ==
    /\ o.edges[k].type = "arc"
    /\ \E n \in 1..2 : PointSelected(s, o.id, o.edges[k].points[n])

\* C16 (arc radius rescale, bulged case): after a mousemove of a point-edit
\* gesture, every arc edge with an endpoint among the gesture's points whose
\* radius R0 and chord d0 at the mousedown satisfy R0 > d0/2 and whose chord
\* d1 is now positive has rx = ry = max(d1/2 + 0.1, R0 * d1 / d0), which is
\* more than d1/2.
C16_BulgedArcRescale ==
    [][(/\ lastEvent' = "mousemove"
        /\ gesture = "point"
        /\ state'.interaction = "point")
          => \A j \in 1..Len(state'.objects) :
                LET o == state'.objects[j]
                IN (/\ SnapHas(state'.initialPoints, o.id)
                    /\ SnapHas(state'.initialEdges, o.id))
                   => \A k \in 1..Len(o.edges) :
                        LET R0 == SnapGet(state'.initialEdges, o.id)[k].rx
                            d0 == Chord(SnapGet(state'.initialPoints, o.id),
                                        o.edges, k)
                            d1 == Chord(o.points, o.edges, k)
                        IN (/\ AtMovedPoint(state', o, k)
                            /\ 2 * R0 > d0
                            /\ d1 > 0)
                           => /\ o.edges[k].rx =
                                    Max2(DivR(d1, 2) + 1, DivR(R0 * d1, d0))
                              /\ o.edges[k].ry = o.edges[k].rx
                              /\ 2 * o.edges[k].rx > d1]_vars

\* C17 (arc radius rescale, degenerate case): after every mousemove of a
\* point-edit gesture, every arc edge at a moved point whose radius R0 and
\* chord d0 at the mousedown satisfy R0 <= d0/2 and whose chord d1 is now
\* positive has rx = ry = max(d1/2, R0), whatever the earlier mousemoves of
\* the gesture left.
C17_DegenerateArcRescale ==
    [][(/\ lastEvent' = "mousemove"
        /\ gesture = "point"
        /\ state'.interaction = "point")
          => \A j \in 1..Len(state'.objects) :
                LET o == state'.objects[j]
                IN (/\ SnapHas(state'.initialPoints, o.id)
                    /\ SnapHas(state'.initialEdges, o.id))
                   => \A k \in 1..Len(o.edges) :
                        LET R0 == SnapGet(state'.initialEdges, o.id)[k].rx
                            d0 == Chord(SnapGet(state'.initialPoints, o.id),
                                        o.edges, k)
                            d1 == Chord(o.points, o.edges, k)
                        IN (/\ AtMovedPoint(state', o, k)
                            /\ d0 > 0
                            /\ 2 * R0 <= d0
                            /\ d1 > 0)
                           => /\ o.edges[k].rx = Max2(DivR(d1, 2), R0)
                              /\ o.edges[k].ry = o.edges[k].rx]_vars

\* ------------------------------------------------------------------------
\* Pointer events on a path drawn with the arc tool
\* ------------------------------------------------------------------------

\* the open path finishDrawing builds from the clicks `pts` of the arc tool
createArcPath(id, pts, angleDeg, sweep) ==
    [id |-> id, type |-> "path",
     points |-> pts,
     edges |-> [k \in 1..(Len(pts) - 1) |->
                   getArcParamsFromAngle(pts, k - 1, k, angleDeg, sweep)],
     handles |-> <<>>, closed |-> FALSE]

\* a path of two arcs at the default arc angle, through (40,30), (40,70) and
\* (10,70), and the line of the pointer scene
ArcScene ==
    <<createArcPath(1, <<Pt(Px(40), Px(30)), Pt(Px(40), Px(70)), Pt(Px(10), Px(70))>>,
                    90, 1),
      createPath(2, <<Pt(Px(80), Px(30)), Pt(Px(80), Px(70))>>, FALSE)>>

\* a click at pos with the modifier keys held
Click(s, pos, isCtrlClick, isShiftClick) ==
    mouseup(mousedown(s, pos, isCtrlClick, isShiftClick), pos,
            isCtrlClick \/ isShiftClick)

\* the editor after three clicks under the select tool: on the body of the
\* arc path, with shift on the line, with ctrl on the chord of arc 1; both
\* objects are selected, arc 1 is not
ArcPathState ==
    LET body == Click(NewState(ArcScene, 2, "select"), Pt(Px(25), Px(50)), FALSE, FALSE)
        both == Click(body, Pt(Px(80), Px(50)), FALSE, TRUE)
    IN Click(both, Pt(Px(25), Px(70)), TRUE, FALSE)

InitArcPath ==
    /\ \E tool \in {"select", "rotate"} : state = setTool(ArcPathState, tool)
    /\ lastEvent = "init"
    /\ gesture = "none"
    /\ calls = 0

SpecArcPath == InitArcPath /\ [][NextPointer]_vars

\* point i of object id is an endpoint of a selected edge of that object
OnSelectedEdge(s, id, i) ==
    \E e \in 0..(Len(FindObject(s, id).edges) - 1) :
        /\ EdgeSelected(s, id, e)
        /\ Includes(At(FindObject(s, id).edges, e).points, i)

\* C18 (edge-edit rescales incident arcs): after a mousemove of an edge-edit
\* gesture with no marquee pending, both endpoints of every selected edge
\* are their snapshot plus the pointer's displacement, and every arc edge
\* with an endpoint on a selected edge, selected or not, has rx at least
\* half of its chord.
C18_EdgeEditRescalesArcs ==
    [][(/\ lastEvent' = "mousemove"
        /\ gesture = "edge"
        /\ state'.interaction = "edge"
        /\ ~state.isSelecting)
          => \A j \in 1..Len(state'.objects) :
                LET o == state'.objects[j]
                    dx == state'.currentMouse.x - state'.dragStart.x
                    dy == state'.currentMouse.y - state'.dragStart.y
                IN (/\ SnapHas(state'.initialPoints, o.id)
                    /\ SnapHas(state'.initialEdges, o.id))
                   => /\ \A i \in 0..(Len(o.points) - 1) :
                            OnSelectedEdge(state', o.id, i)
                              => At(o.points, i) =
                                   Pt(At(SnapGet(state'.initialPoints, o.id), i).x + dx,
                                      At(SnapGet(state'.initialPoints, o.id), i).y + dy)
                      /\ \A k \in 1..Len(o.edges) :
                            (/\ o.edges[k].type = "arc"
                             /\ \E n \in 1..2 :
                                   OnSelectedEdge(state', o.id, o.edges[k].points[n]))
                              => 2 * o.edges[k].rx >= Chord(o.points, o.edges, k)]_vars

\* ------------------------------------------------------------------------
\* Pointer events at the circle's east and south handles and on both sides
\* of its chord
\* ------------------------------------------------------------------------

\* Pointer positions: the circle's right point (its 'e' resize handle); its
\* bottom point (its 's' handle); its center, on the chord of both arcs; a
\* spot of its body left of the chord; empty canvas right of the circle;
\* the middle of the line; empty canvas left of the circle, beyond the
\* left side of its box
HandlePositions ==
    {Pt(Px(60), Px(50)), Pt(Px(40), Px(70)), Pt(Px(40), Px(50)),
     Pt(Px(30), Px(40)), Pt(Px(70), Px(60)), Pt(Px(80), Px(50)),
     Pt(Px(10), Px(50))}

NextHandles ==
    \/ /\ PointerStep
       /\ \E pos \in HandlePositions, mod \in Modifiers :
             /\ state' = mousedown(state, pos, mod = "ctrl", mod = "shift")
             /\ gesture' = Target(state, pos)
       /\ lastEvent' = "mousedown"
    \/ /\ PointerStep
       /\ \E pos \in HandlePositions : state' = mousemove(state, pos)
       /\ lastEvent' = "mousemove"
       /\ UNCHANGED gesture
    \/ /\ PointerStep
       /\ \E pos \in HandlePositions, additive \in BOOLEAN :
             state' = mouseup(state, pos, additive)
       /\ lastEvent' = "mouseup"
       /\ gesture' = "none"

SpecHandles == InitPointer /\ [][NextHandles]_vars

\* the edge an arc-curvature mousemove edits, [] when the primary object or
\* its edge number state.selectedEdgeIndex does not exist
EditedEdge(s) ==
    IF HasObject(s, s.selectedObjectId)
    THEN IF InRange(FindObject(s, s.selectedObjectId).edges, s.selectedEdgeIndex)
         THEN <<At(FindObject(s, s.selectedObjectId).edges, s.selectedEdgeIndex)>>
         ELSE <<>>
    ELSE <<>>

\* the curvature the rule gives the edge for the pointer m
CurvatureRule(s, edge, m) ==
    LET obj == FindObject(s, s.selectedObjectId)
        p1 == At(obj.points, edge.points[1])
        p2 == At(obj.points, edge.points[2])
        cross == (p2.x - p1.x) * (m.y - p1.y) - (p2.y - p1.y) * (m.x - p1.x)
        d == dist(p1, p2)
        h == Max2(Px(1), DivR(Abs(cross), d))
    IN /\ edge.sweep = (IF cross > 0 THEN 0 ELSE 1)
       /\ d > 0 => /\ edge.rx = DivR(d * d, 8 * h) + DivR(h, 2)
                   /\ edge.ry = edge.rx
                   /\ edge.largeArc = 0

\* the points of every object, in scene order
AllPoints(s) == [k \in 1..Len(s.objects) |-> s.objects[k].points]

\* C19 (arc-curvature rule): after each mousemove of an arc-curvature
\* gesture the edited edge has sweep = 0 if cross((p2-p1),(m-p1)) > 0 and 1
\* otherwise, rx = ry = d*d/(8h) + h/2 with h = max(1, |cross|/d), and
\* largeArc = 0; no point of any object moves.
C19_ArcCurvatureRule ==
    [][(/\ lastEvent' = "mousemove"
        /\ gesture = "arc"
        /\ state'.interaction = "adjust-arc")
          => /\ AllPoints(state') = AllPoints(state)
             /\ EditedEdge(state') # <<>>
             /\ CurvatureRule(state', EditedEdge(state')[1],
                              state'.currentMouse)]_vars

\* the points of the objects other than the primary one, in scene order
OtherPoints(s) ==
    [k \in 1..Len(s.objects) |->
        IF s.objects[k].id = s.selectedObjectId THEN <<>> ELSE s.objects[k].points]

C21_ResizeSweepFlip ==
    [][(/\ lastEvent' = "mousemove"
        /\ gesture = "resize"
        /\ state'.interaction = "resize"
        /\ HasObject(state', state'.selectedObjectId)
        /\ SnapHas(state'.initialEdges, state'.selectedObjectId)
        /\ state'.initialBbox # <<>>)
          => LET o == FindObject(state', state'.selectedObjectId)
                 oldEdges == SnapGet(state'.initialEdges, o.id)
                 oldB == state'.initialBbox[1]
                 newB == ResizedBox(oldB, state'.resizeHandle,
                                    state'.currentMouse.x - state'.dragStart.x,
                                    state'.currentMouse.y - state'.dragStart.y)
                 oneNegative == (newB.width < 0) # (newB.height < 0)
             IN \A k \in 1..Len(o.edges) :
                   o.edges[k].type = "arc"
                     => o.edges[k].sweep =
                          IF oneNegative THEN 1 - oldEdges[k].sweep
                          ELSE oldEdges[k].sweep]_vars

\* ------------------------------------------------------------------------
\* Pointer events on a circle that a rotate gesture has turned
\* ------------------------------------------------------------------------

\* the center of the circle's box, which the first gesture turns it about
FirstCenter == Pt(Px(40), Px(50))

\* the editor after a rotate gesture on the selected circle: its rotation
\* handle at (40,5) was pressed, dragged to (10,50), a quarter turn back
\* about the center (40,50), and released
TurnedState ==
    LET start == setTool(selectObject(NewState(PointerScene, 2, "select"), 1, FALSE),
                         "rotate")
        down == mousedown(start, Pt(Px(40), Px(5)), FALSE, FALSE)
        moved == mousemove(down, Pt(Px(10), Px(50)))
    IN mouseup(moved, Pt(Px(10), Px(50)), FALSE)

SpecTurned ==
    /\ state = TurnedState /\ lastEvent = "init" /\ gesture = "none" /\ calls = 0
    /\ [][NextPointer]_vars

\* the points of the object with this id
PointsOf(s, id) == FindObject(s, id).points

\* a mousemove of a rotate gesture that began on the turned circle and that
\* the rotate branch serves
SecondTurn ==
    /\ lastEvent' = "mousemove"
    /\ gesture = "rotate"
    /\ state'.interaction = "rotate"
    /\ ~state.isSelecting
    /\ state'.selectedObjectId = 1
    /\ SnapHas(state'.initialPoints, 1)
    /\ SnapGet(state'.initialPoints, 1) = PointsOf(TurnedState, 1)

SelectionOf(s) ==
    <<s.selectedObjectIds, s.selectedPointIndices, s.selectedEdgeIndices,
      s.selectedObjectId, s.selectedPointIndex, s.selectedEdgeIndex>>

C24_EscapeKeepsDrag ==
    [][(/\ lastEvent' = "Escape"
        /\ gesture # "none"
        /\ state.tool \in {"select", "rotate"})
          => /\ state'.selectedObjectIds = <<>>
             /\ state'.selectedPointIndices = <<>>
             /\ state'.selectedEdgeIndices = <<>>
             /\ state'.selectedObjectId = NullId
             /\ state'.interaction = state.interaction
             /\ Geometry(state') = Geometry(state)]_vars

\* Escape was pressed while the circle was being dragged: the move session
\* is still open, the circle is away from where it was drawn, nothing is
\* selected
C24_Witness ==
    /\ lastEvent = "Escape"
    /\ gesture = "object"
    /\ state.interaction = "move"
    /\ state.selectedObjectIds = <<>>
    /\ state.selectedObjectId = NullId
    /\ Geometry(state) # PointerScene

\* C25 (arcs stay circular): in every reachable state, every arc edge of
\* every object has rx = ry.
C25_ArcsStayCircular ==
    \A i \in 1..Len(state.objects) :
       \A k \in 1..Len(state.objects[i].edges) :
          state.objects[i].edges[k].type = "arc"
            => state.objects[i].edges[k].rx = state.objects[i].edges[k].ry

\* ------------------------------------------------------------------------
\* The scene under shape drawing, duplication and deletion
\* (context menu, arcs-tool.js)
\* ------------------------------------------------------------------------

\* 'duplicate': every selected object that exists is copied under a fresh
\* id, 20 px down and to the right, and pushed; newIds collects the ids
RECURSIVE DuplicateLoop(_, _, _, _)
DuplicateLoop(s, ids, k, newIds) ==
    IF k > Len(ids) THEN [state |-> s, newIds |-> newIds]
    ELSE IF ~HasObject(s, ids[k]) THEN DuplicateLoop(s, ids, k + 1, newIds)
    ELSE LET obj == FindObject(s, ids[k])
             id == s.objectCounter + 1
             copy == [obj EXCEPT !.id = id,
                                 !.points = Translate(obj.points, Px(20), Px(20))]
         IN DuplicateLoop([s EXCEPT !.objectCounter = id,
                                    !.objects = Append(s.objects, copy)],
                          ids, k + 1, Append(newIds, id))

RECURSIVE SelectEach(_, _, _)
SelectEach(s, ids, k) ==
    IF k > Len(ids) THEN s
    ELSE SelectEach(selectObject(s, ids[k], TRUE), ids, k + 1)

\* the 'duplicate' item of the context menu: the copies become the selection
duplicateSelected(s) ==
    LET done == DuplicateLoop(s, s.selectedObjectIds, 1, <<>>)
    IN SelectEach(clearSelections(done.state), done.newIds, 1)

\* a delete that rewinds the counter to the number of objects left
deleteSelected_Rewind(s) ==
    LET left == SelectSeq(s.objects, LAMBDA o : ~Includes(s.selectedObjectIds, o.id))
    IN clearSelections([s EXCEPT !.objects = left, !.objectCounter = Len(left)])

\* the 'delete' item of the context menu
deleteSelected(s) ==
    clearSelections([s EXCEPT !.objects =
        SelectSeq(s.objects, LAMBDA o : ~Includes(s.selectedObjectIds, o.id))])

\* the longest sequence of events explored on the scene
MaxSceneEvents == 5

\* the chord of the circle, the middle of the line, empty canvas below
ScenePositions == {Pt(Px(40), Px(50)), Pt(Px(80), Px(50)), Pt(Px(60), Px(85))}

\* plain presses, moves and releases, tool switches, the two items of the
\* context menu and the Delete key
NextScene ==
    \/ /\ calls < MaxSceneEvents /\ calls' = calls + 1
       /\ \E pos \in ScenePositions :
             /\ state' = mousedown(state, pos, FALSE, FALSE)
             /\ gesture' = Target(state, pos)
       /\ lastEvent' = "mousedown"
    \/ /\ calls < MaxSceneEvents /\ calls' = calls + 1
       /\ \E pos \in ScenePositions : state' = mousemove(state, pos)
       /\ lastEvent' = "mousemove"
       /\ UNCHANGED gesture
    \/ /\ calls < MaxSceneEvents /\ calls' = calls + 1
       /\ \E pos \in ScenePositions : state' = mouseup(state, pos, FALSE)
       /\ lastEvent' = "mouseup"
       /\ gesture' = "none"
    \/ /\ calls < MaxSceneEvents /\ calls' = calls + 1
       /\ \E toolName \in {"select", "rectangle", "circle"} :
             state' = setTool(state, toolName)
       /\ lastEvent' = "setTool"
       /\ UNCHANGED gesture
    \/ /\ calls < MaxSceneEvents /\ calls' = calls + 1
       /\ state' = duplicateSelected(state)
       /\ lastEvent' = "duplicate"
       /\ UNCHANGED gesture
    \/ /\ calls < MaxSceneEvents /\ calls' = calls + 1
       /\ state' = deleteSelected(state)
       /\ lastEvent' = "delete"
       /\ UNCHANGED gesture
    \/ /\ calls < MaxSceneEvents /\ calls' = calls + 1
       /\ KeyDelete

\* the editor after the circle and the line were drawn, under the select,
\* the rectangle or the circle tool, with the circle selected or nothing
SpecScene ==
    /\ \E tool \in {"select", "rectangle", "circle"}, selected \in BOOLEAN :
          state = IF selected
                  THEN setTool(selectObject(NewState(PointerScene, 2, "select"),
                                            1, FALSE), tool)
                  ELSE NewState(PointerScene, 2, tool)
    /\ lastEvent = "init" /\ gesture = "none" /\ calls = 0
    /\ [][NextScene]_vars

\* the objects of the scene have pairwise distinct ids
DistinctIds(s) ==
    \A i, j \in 1..Len(s.objects) : s.objects[i].id = s.objects[j].id => i = j

PointEditMove ==
    /\ lastEvent' = "mousemove"
    /\ gesture = "point"
    /\ state.interaction = "point"

\* C27 (point-edit postcondition and frame): after each mousemove of a
\* point-edit gesture, every selected point is at its snapshot position
\* plus the pointer's total displacement, and every other point of every
\* object is where it was at the mousedown.
C27_PointEditPostAndFrame ==
    [][PointEditMove
          => LET dx == state'.currentMouse.x - state'.dragStart.x
                 dy == state'.currentMouse.y - state'.dragStart.y
             IN \A i \in 1..Len(state'.objects) :
                   LET o == state'.objects[i]
                   IN /\ Len(o.points) = Len(state.objects[i].points)
                      /\ \A k \in 1..Len(o.points) :
                            IF PointSelected(state', o.id, k - 1)
                            THEN /\ SnapHas(state'.initialPoints, o.id)
                                 /\ LET old == SnapGet(state'.initialPoints, o.id)[k]
                                    IN o.points[k] = Pt(old.x + dx, old.y + dy)
                            ELSE IF SnapHas(state'.initialPoints, o.id)
                            THEN o.points[k] = SnapGet(state'.initialPoints, o.id)[k]
                            ELSE o.points[k] = state.objects[i].points[k]]_vars

\* C28 (no point or edge selected without its object): every pair of the
\* point selection and of the edge selection names an object of the object
\* selection.
C28_PairsHaveTheirObject ==
    /\ \A k \in 1..Len(state.selectedPointIndices) :
          Includes(state.selectedObjectIds, state.selectedPointIndices[k].objectId)
    /\ \A k \in 1..Len(state.selectedEdgeIndices) :
          Includes(state.selectedObjectIds, state.selectedEdgeIndices[k].objectId)

\* a point of the open path is selected with its object, and nothing of
\* the closed path
C28_Witness ==
    /\ calls >= 3
    /\ state.selectedObjectIds = <<2>>
    /\ PointSelected(state, 2, 0)
    /\ ~PointSelected(state, 2, 1)
    /\ \A k \in 1..Len(state.selectedPointIndices) :
          state.selectedPointIndices[k].objectId = 2

\* C29 (primary consistent with the set): the primary object is null or a
\* member of the object selection.
C29_PrimaryIsSelected ==
    state.selectedObjectId = NullId
       \/ Includes(state.selectedObjectIds, state.selectedObjectId)

\* the Delete key removed the selected circle: nothing is selected and
\* there is no primary object
C29_Witness ==
    /\ lastEvent = "Delete"
    /\ ~HasObject(state, 1)
    /\ HasObject(state, 2)
    /\ state.selectedObjectIds = <<>>
    /\ state.selectedObjectId = NullId

\* C30 (query predicates agree with the sets): isPointSelected(id, i) holds
\* only if the pair (id, i) is in selectedPointIndices, and
\* isEdgeSelected(id, e) only if (id, e) is in selectedEdgeIndices, for
\* every point and edge of every object.
C30_QueriesAgreeWithSets ==
    \A id \in ObjectIds(state) :
       /\ \A i \in PointIndexes(state, id) :
             isPointSelected(state, id, i) => PointSelected(state, id, i)
       /\ \A e \in EdgeIndexes(state, id) :
             isEdgeSelected(state, id, e) => EdgeSelected(state, id, e)

\* rx, ry, sweep and largeArc of every edge of every object, with the
\* entry of edge number index of the object id left out
EdgeParamsBut(s, id, index) ==
    [k \in 1..Len(s.objects) |->
        [e \in 1..Len(s.objects[k].edges) |->
            IF s.objects[k].id = id /\ e = index + 1 THEN <<>>
            ELSE LET edge == s.objects[k].edges[e]
                 IN <<edge.rx, edge.ry, edge.sweep, edge.largeArc>>]]

\* C31 (arc-curvature edits the struck edge only): on every mousemove of an
\* arc-curvature gesture, plain, shift or ctrl press alike, the edge that
\* state.selectedEdgeIndex names in the primary object exists, and no edge
\* other than the arc edge the mousedown struck changes its rx, ry, sweep or
\* largeArc.
C31_CurvatureOnStruckEdgeOnly ==
    [][(/\ lastEvent' = "mousemove"
        /\ gesture = "arc"
        /\ state.interaction = "adjust-arc"
        /\ ~state.isSelecting)
          => LET struck == EdgeHit(state, state.dragStart)
             IN /\ EditedEdge(state) # <<>>
                /\ EdgeParamsBut(state', struck.id, struck.index)
                      = EdgeParamsBut(state, struck.id, struck.index)]_vars

\* C32 (keyboard handlers interleaved with a gesture): when Ctrl+A, Shift+A
\* or Escape ran during a resize or a rotate gesture, the next mousemove of
\* the gesture finds a snapshot of the primary object it transforms, and
\* changes no object that has no snapshot.
C32_KeysKeepSnapshotOfPrimary ==
    [][(/\ lastEvent \in {"Ctrl+A", "Shift+A", "Escape"}
        /\ lastEvent' = "mousemove"
        /\ gesture \in {"resize", "rotate"}
        /\ state.interaction \in {"resize", "rotate"}
        /\ ~state.isSelecting
        /\ Len(state.objects) >= 2)
          => /\ HasObject(state, state.selectedObjectId)
                  => SnapHas(state.initialPoints, state.selectedObjectId)
             /\ \A k \in 1..Len(state.objects) :
                   ~SnapHas(state.initialPoints, state.objects[k].id)
                      => state'.objects[k] = state.objects[k]]_vars

\* ------------------------------------------------------------------------
\* Mousemoves and keys after Escape was pressed inside a gesture
\* ------------------------------------------------------------------------

\* mousemoves and keyboard events only: no mousedown and no mouseup follow
NextEscaped ==
    \/ KeyStep /\ MouseMove
    \/ KeyStep /\ KeyTool
    \/ KeyStep /\ KeyEscape
    \/ KeyStep /\ KeyCtrlA
    \/ KeyStep /\ KeyShiftA
    \/ KeyStep /\ KeyDelete

\* the editor with the circle selected, under the select or the rotate
\* tool, after a plain mousedown, one mousemove and Escape
SpecEscaped ==
    /\ \E tool \in {"select", "rotate"}, pos \in Positions, to \in Positions :
          LET start == setTool(selectObject(NewState(PointerScene, 2, "select"),
                                            1, FALSE), tool)
          IN /\ state = keyEscape(mousemove(mousedown(start, pos, FALSE, FALSE), to))
             /\ gesture = Target(start, pos)
    /\ lastEvent = "Escape"
    /\ calls = 0
    /\ [][NextEscaped]_vars

\* C33 (Escape freezes the drag): after Escape was pressed inside a gesture,
\* every mousemove delivered before the next mousedown changes no point and
\* no edge parameter of any object, and leaves state.interaction as it is.
C33_EscapeFreezesDrag ==
    [][lastEvent' = "mousemove"
          => /\ Geometry(state') = Geometry(state)
             /\ state'.interaction = state.interaction]_vars

\* ------------------------------------------------------------------------
\* The canvas while paths are drawn
\* ------------------------------------------------------------------------

\* Enter: the path being drawn is finished open
keyEnter(s) == IF s.drawingPoints # <<>> THEN finishDrawing(s, FALSE) ELSE s

\* the Control key cycles through the drawing tools while a path is drawn
keyControl(s) ==
    IF s.drawingPoints = <<>> THEN s
    ELSE setTool([s EXCEPT !.isDraggingHandle = FALSE],
                 CASE s.tool = "polyline" -> "arc"
                   [] s.tool = "arc" -> "spline"
                   [] s.tool = "spline" -> "polyline"
                   [] OTHER -> "polyline")

\* the contextmenu listener: an undo step while a path is drawn, else the
\* object under the pointer becomes the selection
contextmenu(s, pos) ==
    IF s.tool \in DrawingTools /\ s.drawingPoints # <<>>
    THEN (IF Len(s.drawingPoints[1]) > 0 THEN undoPoint(s) ELSE s)
    ELSE IF hitTestObject(s, pos) # NullId
    THEN selectObject(s, hitTestObject(s, pos), FALSE)
    ELSE s

\* the longest sequence of events explored while drawing
MaxDrawEvents == 5

\* three corners of a triangle and a spot within reach of the first corner
DrawPositions ==
    {Pt(Px(10), Px(10)), Pt(Px(50), Px(10)), Pt(Px(30), Px(40)), Pt(Px(15), Px(15))}

\* presses under a drawing tool, moves, releases, Enter, Backspace, the
\* right button, the Control key and tool switches
NextDrawing ==
    \/ /\ calls < MaxDrawEvents /\ calls' = calls + 1
       /\ state.tool \in DrawingTools
       /\ \E pos \in DrawPositions : state' = mousedown(state, pos, FALSE, FALSE)
       /\ lastEvent' = "mousedown"
       /\ gesture' = "draw"
    \/ /\ calls < MaxDrawEvents /\ calls' = calls + 1
       /\ \E pos \in DrawPositions : state' = mousemove(state, pos)
       /\ lastEvent' = "mousemove"
       /\ UNCHANGED gesture
    \/ /\ calls < MaxDrawEvents /\ calls' = calls + 1
       /\ state' = mouseup(state, state.currentMouse, FALSE)
       /\ lastEvent' = "mouseup"
       /\ gesture' = "none"
    \/ /\ calls < MaxDrawEvents /\ calls' = calls + 1
       /\ state' = keyEnter(state)
       /\ lastEvent' = "Enter"
       /\ UNCHANGED gesture
    \/ /\ calls < MaxDrawEvents /\ calls' = calls + 1
       /\ state' = keyDelete(state)
       /\ lastEvent' = "Backspace"
       /\ UNCHANGED gesture
    \/ /\ calls < MaxDrawEvents /\ calls' = calls + 1
       /\ \E pos \in DrawPositions : state' = contextmenu(state, pos)
       /\ lastEvent' = "contextmenu"
       /\ UNCHANGED gesture
    \/ /\ calls < MaxDrawEvents /\ calls' = calls + 1
       /\ state' = keyControl(state)
       /\ lastEvent' = "Control"
       /\ UNCHANGED gesture
    \/ /\ calls < MaxDrawEvents /\ calls' = calls + 1
       /\ \E toolName \in DrawingTools \cup {"select"} :
             state' = setTool(state, toolName)
       /\ lastEvent' = "setTool"
       /\ UNCHANGED gesture

\* the empty editor under a drawing tool
SpecDrawing ==
    /\ \E tool \in DrawingTools : state = NewState(<<>>, 0, tool)
    /\ lastEvent = "init" /\ gesture = "none" /\ calls = 0
    /\ [][NextDrawing]_vars

\* the path being drawn: one edge fewer than points, edge i from point i to
\* point i + 1, one handle entry per point
DrawingAligned(s) ==
    s.drawingPoints # <<>> =>
        /\ s.drawingEdges # <<>> /\ s.drawingHandles # <<>>
        /\ Len(s.drawingEdges[1]) = Len(s.drawingPoints[1]) - 1
        /\ \A k \in 1..Len(s.drawingEdges[1]) :
              s.drawingEdges[1][k].points = <<k - 1, k>>
        /\ Len(s.drawingHandles[1]) = Len(s.drawingPoints[1])

\* C34: while paths are drawn, after every press, undo step (context menu,
\* Backspace), key and tool switch the path being drawn has one edge fewer
\* than points, edge i joins points i and i + 1, and there is one handle
\* entry per point; the shape a closing click creates has as many edges as
\* points and its last edge joins the last point to point 0; the path Enter
\* creates has one edge fewer than points; no object is created from fewer
\* than two points
C34_PathsStayAligned ==
    [][/\ DrawingAligned(state')
       /\ Len(state'.objects) > Len(state.objects) =>
             LET obj == state'.objects[Len(state'.objects)]
                 n == Len(obj.points)
             IN /\ n >= 2
                /\ lastEvent' \in {"mousedown", "Enter"}
                /\ lastEvent' = "mousedown" =>
                      /\ Len(obj.edges) = n
                      /\ obj.edges[n].points = <<n - 1, 0>>
                /\ lastEvent' = "Enter" => Len(obj.edges) = n - 1]_vars

\* a closing click has just made a triangle of the three points drawn
C34_Witness ==
    /\ Len(state.objects) = 1
    /\ state.objects[1].closed
    /\ Len(state.objects[1].points) = 3
    /\ lastEvent = "mousedown"

\* ------------------------------------------------------------------------
\* The radius of the arc-curvature rule, in exact arithmetic
\* ------------------------------------------------------------------------

\* the fraction num / den, den > 0
Ratio(num, den) == [num |-> num, den |-> den]

\* a rule that leaves the half bulge out of the radius
chordRadius_NoBulge(d, cross) ==
    LET bulge == Ratio(Abs(cross), d)
        h == IF bulge.num <= bulge.den THEN Ratio(1, 1) ELSE bulge
    IN [h |-> h, R |-> Ratio(d * d * h.den, 8 * h.num)]

\* h = max(1, |cross / d|) and R = d * d / (8 * h) + h / 2 as fractions, for
\* a chord of length d > 0
chordRadius(d, cross) ==
    LET bulge == Ratio(Abs(cross), d)
        h == IF bulge.num <= bulge.den THEN Ratio(1, 1) ELSE bulge
    IN [h |-> h,
        R |-> Ratio(d * d * h.den * h.den + 4 * h.num * h.num, 8 * h.num * h.den)]

\* the largest pixel coordinate of a chord end or of the pointer
MaxCoord == 4

Grid == {Pt(x, y) : x \in 0..MaxCoord, y \in 0..MaxCoord}

\* the pointer moves to pos while the curvature of the chord p1 p2 is edited
NextRadius ==
    \E pos \in Grid :
       LET p1 == state.p1
           p2 == state.p2
           cross == (p2.x - p1.x) * (pos.y - p1.y) - (p2.y - p1.y) * (pos.x - p1.x)
       IN /\ state' = [state EXCEPT !.pos = pos,
                                    !.radius = <<chordRadius(state.d, cross)>>]
          /\ lastEvent' = "mousemove"
          /\ UNCHANGED <<gesture, calls>>

\* every chord of the grid whose length is a whole number of pixels
SpecRadius ==
    /\ \E p1 \in Grid, p2 \in Grid :
          /\ dist(p1, p2) > 0
          /\ dist(p1, p2) * dist(p1, p2) = DistSq(p1, p2)
          /\ state = [p1 |-> p1, p2 |-> p2, d |-> dist(p1, p2),
                      pos |-> p1, radius |-> <<>>]
    /\ lastEvent = "init" /\ gesture = "arc" /\ calls = 0
    /\ [][NextRadius]_vars

\* C35: for every chord length d > 0 and every pointer position, the radius
\* R = d*d/(8h) + h/2 with h = max(1, |cross|/d) that an arc-curvature
\* mousemove sets is at least d/2, and equals d/2 exactly when h = d/2
C35_RadiusSpansChord ==
    state.radius # <<>> =>
        LET h == state.radius[1].h
            R == state.radius[1].R
        IN /\ 2 * R.num >= state.d * R.den
           /\ (2 * R.num = state.d * R.den) <=> (2 * h.num = state.d * h.den)

\* the pointer is half a chord away from a chord of four pixels: the arc is
\* the half circle on the chord
C35_Witness ==
    /\ state.radius # <<>>
    /\ state.d = 4
    /\ state.radius[1].h = Ratio(8, 4)
    /\ 2 * state.radius[1].R.num = state.d * state.radius[1].R.den

\* toggleObjectSelection(id) called twice
ToggledTwice(s, id) == toggleObjectSelection(toggleObjectSelection(s, id), id)

\* C36 (toggle round trip on objects): for an existing object whose id is
\* not in selectedObjectIds, two calls of toggleObjectSelection(id) leave
\* selectedObjectIds, selectedPointIndices and selectedEdgeIndices the same
\* sets as before the first call; for an object that is selected with only
\* part of its points and edges, the two calls leave it fully selected.
C36_ToggleRoundTrip ==
    \A id \in ObjectIds(state) :
        LET t == ToggledTwice(state, id)
        IN IF ~Includes(state.selectedObjectIds, id)
           THEN /\ Elements(t.selectedObjectIds) = Elements(state.selectedObjectIds)
                /\ Elements(t.selectedPointIndices) =
                       Elements(state.selectedPointIndices)
                /\ Elements(t.selectedEdgeIndices) =
                       Elements(state.selectedEdgeIndices)
           ELSE ~(AllPointsSelected(state, id) /\ AllEdgesSelected(state, id)) =>
                   /\ Includes(t.selectedObjectIds, id)
                   /\ AllPointsSelected(t, id)
                   /\ AllEdgesSelected(t, id)

\* obj_1 is not selected, obj_2 is selected with one of its two points, and
\* the round trip through obj_1 forgets the primary point
C36_Witness ==
    /\ ~Includes(state.selectedObjectIds, 1)
    /\ Includes(state.selectedObjectIds, 2)
    /\ PointSelected(state, 2, 1)
    /\ ~PointSelected(state, 2, 0)
    /\ state.selectedPointIndex = 1
    /\ ToggledTwice(state, 1).selectedPointIndex = NullIndex
    /\ ~AllPointsSelected(ToggledTwice(state, 1), 2)
    /\ AllPointsSelected(ToggledTwice(state, 2), 2)

====
